---------------------------- MODULE Spec2Model ----------------------------
(***************************************************************************)
(* A model of MechDrawKit: the GB-standard configuration singleton, the    *)
(* four drawing strategies and the canvas they draw on, the strategy       *)
(* factory and the drawing templates.                                      *)
(*                                                                         *)
(* Numbers.  Python floats are modelled by exact integers.  Every length   *)
(* and coordinate, in a caller's keywords and on the canvas, is a whole    *)
(* number of TENTHS of a drawing unit, so that the fractional constants of *)
(* the source (0.5, 2.5, 3.5, 7.5) are integers; U(c) is the source's      *)
(* constant c, given in drawing units, in tenths.  Where the source        *)
(* multiplies by 0.2, 0.8 or 1.2 the callers' values are multiples of 5    *)
(* tenths, and where it halves a length they are even numbers of tenths,   *)
(* for which the result is a whole number of tenths.  The underline of a   *)
(* section view label is len(text) * height * 0.3 to either side, which is *)
(* not: a coordinate that is not a whole number of tenths is the fraction  *)
(* <<n, d>> of tenths in lowest terms (Exact).                             *)
(* Python's None is the empty tuple <<>> where a getter returns Optional,  *)
(* and the record NoneVal where an attribute holds None.                   *)
(***************************************************************************)
EXTENDS Integers, Sequences, FiniteSets, TLC

VARIABLES
    _instance,      \* GBStandardConfig._instance: 0 for None, else the object's identity
    _config,        \* the _config attribute of each object that has one: object -> snapshot
    nextObj,        \* identity given to the next object that is created
    pc,             \* each thread's position inside GBStandardConfig() or reload_config
    local,          \* each thread's locals there: self, config_file, the loaded dict
    cfgCall,        \* the last configuration call that ended: what was asked, what came back
    constructed,    \* the objects that constructor calls have returned
    canvas,         \* the primitives the canvas has received, in order
    lastCall,       \* the last strategy draw call: inputs, outcome, canvas length before
    draws,          \* number of draw calls made so far
    self,           \* the class of the strategy object that is drawing
    tplClass,       \* the class of the template object
    tplArgs,        \* the keywords of the generate_drawing call in progress
    tplPc,          \* position inside generate_drawing: "idle", the phase to run, "return"
    tplTrace,       \* the phases the call in progress has run, in order
    tplResult,      \* what the last generate_drawing call gave its caller
    tplBefore,      \* the canvas when that call began
    runs,           \* number of generate_drawing calls made so far
    _strategies,    \* ComponentFactory._strategies: name -> strategy class
    _instances,     \* ComponentFactory._instances: cache key -> strategy instance
    issued,         \* the create_strategy calls that returned since the cache was last cleared
    retired,        \* the serials of the instances that were cached when the cache was cleared
    facCall,        \* the last factory call: inputs and outcome
    creates,        \* number of create_strategy calls made so far
    msp,            \* the entities of the drawing's modelspace, in order
    doc,            \* the drawing's document: its text styles, line types and layers
    tblLog,         \* the add_parts_table calls made so far: mapping, entities added, result
    tblCalls        \* the update_title_block and add_part_to_table calls made so far

cfgVars == <<_instance, _config, nextObj, pc, local, cfgCall, constructed>>
drawVars == <<canvas, lastCall, draws, self>>
tplVars == <<tplClass, tplArgs, tplPc, tplTrace, tplResult, tplBefore, runs>>
facVars == <<_strategies, _instances, issued, retired, facCall, creates>>
tblVars == <<msp, doc, tblLog, tblCalls>>
vars == <<cfgVars, drawVars, tplVars, facVars, tblVars>>

-----------------------------------------------------------------------------
(* Python values *)

NoneVal == [none |-> TRUE]

\* an empty dict / empty keyword mapping
EmptyKw == [f \in {} |-> 0]

\* dict.get(key, default)
DictGet(d, key, default) == IF key \in DOMAIN d THEN d[key] ELSE default

\* pattern in text, for strings
Contains(text, pattern) ==
    \E i \in 1..(Len(text) - Len(pattern) + 1) :
        SubSeq(text, i, i + Len(pattern) - 1) = pattern

\* a constant of the source, in tenths
U(c) == 10 * c

Abs(x) == IF x < 0 THEN -x ELSE x

Min(a, b) == IF a < b THEN a ELSE b

-----------------------------------------------------------------------------
(* The configuration files of the file system.  The JSON file shipped      *)
(* beside gb_standards.py is not part of the sources, so the snapshots are *)
(* small stand-ins with the four sections and the scalar fields of the     *)
(* format; no two of them agree on any section.  A line type is an object *)
(* with a description and a dash pattern, as the canvas adapter reads it.  *)

SnapA ==
    [line_types    |-> [CENTER |-> [description |-> "Center", pattern |-> <<12, -3, 2, -3>>],
                        HIDDEN |-> [description |-> "Hidden", pattern |-> <<5, -2>>]],
     layer_mapping |-> [PARTS |-> "A_parts", DIMENSIONS |-> "A_dims",
                        CENTERLINE |-> "A_center", TEXT |-> "A_text"],
     text_heights  |-> [title |-> 70, dimension |-> 35],
     arrow_size    |-> 25,
     scales        |-> <<1, 2, 5>>]

SnapB ==
    [line_types    |-> [CENTER |-> [description |-> "Center 2", pattern |-> <<20, -4, 1, -4>>],
                        CONTINUOUS |-> [description |-> "Solid", pattern |-> <<>>]],
     layer_mapping |-> [PARTS |-> "B_parts", HIDDEN |-> "B_hidden",
                        TOLERANCE |-> "B_tol"],
     text_heights  |-> [title |-> 50],
     arrow_size    |-> 40,
     scales        |-> <<1, 10>>]

\* a snapshot with no layer_mapping section, no arrow_size and no scales
SnapC ==
    [line_types    |-> [PHANTOM |-> [pattern |-> <<10, -2, 1, -2, 1, -2>>]],
     text_heights  |-> [note |-> 25]]

DefaultFile == "gb_standards.json"

Files == {DefaultFile, "b.json", "c.json", "null.json", "missing.json", "bad.json"}

\* What open() + json.load() meet for each file.
FileState(f) ==
    CASE f = DefaultFile    -> [kind |-> "ok", value |-> SnapA]
      [] f = "b.json"       -> [kind |-> "ok", value |-> SnapB]
      [] f = "c.json"       -> [kind |-> "ok", value |-> SnapC]
      [] f = "null.json"    -> [kind |-> "ok", value |-> NoneVal]
      [] f = "bad.json"     -> [kind |-> "malformed", value |-> NoneVal]
      [] OTHER              -> [kind |-> "absent", value |-> NoneVal]

\* The snapshots a successful load can return.
WholeSnapshots == {FileState(f).value : f \in {g \in Files : FileState(g).kind = "ok"}}

\* GBStandardConfig._load_config: the parsed file, or the exception raised.
_load_config(config_file) ==
    LET s == FileState(config_file) IN
    CASE s.kind = "ok"        -> [raised |-> "", value |-> s.value]
      [] s.kind = "absent"    -> [raised |-> "FileNotFoundError", value |-> NoneVal]
      [] OTHER                -> [raised |-> "ValueError", value |-> NoneVal]

\* The config_file=None default of __init__ and reload_config.
ResolveFile(config_file) == IF config_file = "None" THEN DefaultFile ELSE config_file

FileArgs == Files \cup {"None"}

-----------------------------------------------------------------------------
(* GBStandardConfig getters, as functions of the snapshot `cfg` that        *)
(* self._config holds when the getter reads it.                            *)

get_line_type(cfg, line_type) ==
    LET sec == DictGet(cfg, "line_types", EmptyKw) IN
    IF line_type \in DOMAIN sec THEN <<sec[line_type]>> ELSE <<>>

get_layer_mapping(cfg, logical_layer) ==
    DictGet(DictGet(cfg, "layer_mapping", EmptyKw), logical_layer, logical_layer)

get_text_height(cfg, height_type) ==
    LET sec == DictGet(cfg, "text_heights", EmptyKw) IN
    IF height_type \in DOMAIN sec THEN <<sec[height_type]>> ELSE <<>>

get_arrow_size(cfg) == DictGet(cfg, "arrow_size", U(3))

get_all_line_types(cfg) == DictGet(cfg, "line_types", EmptyKw)

get_all_layer_mappings(cfg) == DictGet(cfg, "layer_mapping", EmptyKw)

get_scales(cfg) == DictGet(cfg, "scales", <<1, 2, 5, 10, 20, 50, 100, 200, 500, 1000>>)

\* the getters call sites use, by name; get_arrow_size and get_scales take no key
Getters == {"get_line_type", "get_layer_mapping", "get_text_height", "get_arrow_size",
            "get_scales"}

\* A getter call on the object while self._config is `cfg`: every getter
\* begins with self._config.get, which None does not have.
ConfigQuery(cfg, getter, key) ==
    IF cfg = NoneVal THEN [raised |-> "AttributeError", value |-> NoneVal]
    ELSE [raised |-> "",
          value |-> CASE getter = "get_line_type"     -> get_line_type(cfg, key)
                      [] getter = "get_layer_mapping" -> get_layer_mapping(cfg, key)
                      [] getter = "get_text_height"   -> get_text_height(cfg, key)
                      [] getter = "get_arrow_size"    -> get_arrow_size(cfg)
                      [] getter = "get_scales"        -> get_scales(cfg)]

\* the threads of the process that use the configuration
Threads == {"A", "B"}

\* a thread's locals outside a call
NoLocal == [obj |-> 0, value |-> NoneVal]

\* obj._config: the object's own attribute once it was assigned, else the
\* class attribute, which stays None
ConfigOf(cfgs, obj) == IF obj \in DOMAIN cfgs THEN cfgs[obj] ELSE NoneVal

\* the assignment obj._config = value
Assigned(cfgs, obj, value) == [o \in DOMAIN cfgs \cup {obj} |-> IF o = obj THEN value ELSE cfgs[o]]

\* a reload that updates the installed dict with the loaded one, key by key
Installed_Update(old, loaded) == loaded @@ old

\* reload_config's assignment self._config = <the loaded dict>
Installed(old, loaded) == loaded

\* a call on object obj that ended
CfgCall(call, obj, arg, key, raised, result) ==
    [call |-> call, obj |-> obj, arg |-> arg, key |-> key, raised |-> raised,
     result |-> result]

NoCfgCall == CfgCall("none", 0, "", "", "", NoneVal)

-----------------------------------------------------------------------------
(* Strategies: shared machinery.  A handler's outcome is the exception it  *)
(* raised ("" for none), the primitives it handed to the canvas before     *)
(* returning or raising, in order, and whether it returns a list of        *)
(* handles or a single handle.                                             *)

Ok(prims, aslist) == [raised |-> "", prims |-> prims, list |-> aslist]

Raise(exc) == [raised |-> exc, prims |-> <<>>, list |-> FALSE]

\* Python's binding of **kwargs to a handler's signature: every keyword must be
\* a parameter and every parameter without default must be given.
Bindable(kw, required, defaults) ==
    /\ DOMAIN kw \subseteq (required \cup DOMAIN defaults)
    /\ required \subseteq DOMAIN kw

\* _get_layer that hands the logical name on without the lookup
_get_layer_Unmapped(cfg, layer) == layer

\* DrawingStrategy._get_layer
_get_layer(cfg, layer) == get_layer_mapping(cfg, layer)

\* DrawingStrategy.validate_params: an empty operation string is falsy
Base_validate_params(operation, kw) == operation # ""

\* canvas.add_line(start, end, layer=..., linetype=...); linetype "" when not passed
Line(start, end, layer, linetype) ==
    [type |-> "line", start |-> start, end |-> end, layer |-> layer, linetype |-> linetype]

\* canvas.add_circle(center, radius, layer=...)
Circle(center, radius, layer) ==
    [type |-> "circle", center |-> center, radius |-> radius, layer |-> layer]

\* canvas.add_text(text, position, height=..., layer=..., style, halign, valign);
\* style "" and alignments -1 when not passed
Text(text, position, height, layer, style, halign, valign) ==
    [type |-> "text", text |-> text, position |-> position, height |-> height,
     layer |-> layer, style |-> style, halign |-> halign, valign |-> valign]

-----------------------------------------------------------------------------
(* BasicShapeDrawer *)

_draw_circle(cfg, kw) ==
    LET defaults == [layer |-> "PARTS"]
        a == kw @@ defaults
    IN  IF ~Bindable(kw, {"center", "radius"}, defaults) THEN Raise("TypeError")
        ELSE Ok(<<Circle(a.center, a.radius, _get_layer(cfg, a.layer))>>, FALSE)

\* a rectangle drawn from the lower-left corner the other way round
_draw_rectangle_Clockwise(cfg, kw) ==
    LET x == kw.lower_left[1]
        y == kw.lower_left[2]
        w == kw.width
        h == kw.height
        mapped_layer == _get_layer(cfg, DictGet(kw, "layer", "PARTS"))
    IN  Ok(<<Line(<<x, y>>, <<x, y + h>>, mapped_layer, ""),
             Line(<<x, y + h>>, <<x + w, y + h>>, mapped_layer, ""),
             Line(<<x + w, y + h>>, <<x + w, y>>, mapped_layer, ""),
             Line(<<x + w, y>>, <<x, y>>, mapped_layer, "")>>, TRUE)

_draw_rectangle(cfg, kw) ==
    LET defaults == [layer |-> "PARTS"]
        a == kw @@ defaults
        x == a.lower_left[1]
        y == a.lower_left[2]
        w == a.width
        h == a.height
        mapped_layer == _get_layer(cfg, a.layer)
    IN  IF ~Bindable(kw, {"lower_left", "width", "height"}, defaults) THEN Raise("TypeError")
        ELSE Ok(<<Line(<<x, y>>, <<x + w, y>>, mapped_layer, ""),
                  Line(<<x + w, y>>, <<x + w, y + h>>, mapped_layer, ""),
                  Line(<<x + w, y + h>>, <<x, y + h>>, mapped_layer, ""),
                  Line(<<x, y + h>>, <<x, y>>, mapped_layer, "")>>, TRUE)

_draw_line(cfg, kw) ==
    LET defaults == [layer |-> "VISIBLE"]
        a == kw @@ defaults
    IN  IF ~Bindable(kw, {"start", "end"}, defaults) THEN Raise("TypeError")
        ELSE Ok(<<Line(a.start, a.end, _get_layer(cfg, a.layer), "")>>, FALSE)

\* _draw_centerline, _draw_hiddenline, _draw_phantomline, _draw_borderline: the
\* same body with a fixed logical layer and a fixed line type, and no layer
\* parameter in the signature
_draw_styled_line(cfg, kw, logical, linetype) ==
    IF ~Bindable(kw, {"start", "end"}, EmptyKw) THEN Raise("TypeError")
    ELSE Ok(<<Line(kw.start, kw.end, _get_layer(cfg, logical), linetype)>>, FALSE)

_draw_centerline(cfg, kw) == _draw_styled_line(cfg, kw, "CENTERLINE", "CENTER")

_draw_hiddenline(cfg, kw) == _draw_styled_line(cfg, kw, "HIDDEN", "HIDDEN")

_draw_phantomline(cfg, kw) == _draw_styled_line(cfg, kw, "PHANTOM", "PHANTOM")

_draw_borderline(cfg, kw) == _draw_styled_line(cfg, kw, "BORDER", "BORDER")

_draw_polyline(cfg, kw) ==
    LET defaults == [closed |-> FALSE, layer |-> "PARTS"]
        a == kw @@ defaults
    IN  IF ~Bindable(kw, {"points"}, defaults) THEN Raise("TypeError")
        ELSE Ok(<<[type |-> "polyline", points |-> a.points, closed |-> a.closed,
                   layer |-> _get_layer(cfg, a.layer)]>>, FALSE)

\* angles are degrees, passed through
_draw_arc(cfg, kw) ==
    LET defaults == [layer |-> "PARTS"]
        a == kw @@ defaults
    IN  IF ~Bindable(kw, {"center", "radius", "start_angle", "end_angle"}, defaults)
        THEN Raise("TypeError")
        ELSE Ok(<<[type |-> "arc", center |-> a.center, radius |-> a.radius,
                   start_angle |-> a.start_angle, end_angle |-> a.end_angle,
                   layer |-> _get_layer(cfg, a.layer)]>>, FALSE)

\* ratio is passed through in hundredths; the curve parameters are opaque
\* numerals (the default end parameter is the literal 6.283185307)
_draw_ellipse(cfg, kw) ==
    LET defaults == [start_param |-> "0", end_param |-> "6.283185307", layer |-> "PARTS"]
        a == kw @@ defaults
    IN  IF ~Bindable(kw, {"center", "major_axis", "ratio"}, defaults) THEN Raise("TypeError")
        ELSE Ok(<<[type |-> "ellipse", center |-> a.center, major_axis |-> a.major_axis,
                   ratio |-> a.ratio, start_param |-> a.start_param,
                   end_param |-> a.end_param, layer |-> _get_layer(cfg, a.layer)]>>, FALSE)

_draw_spline(cfg, kw) ==
    LET defaults == [degree |-> 3, layer |-> "PARTS"]
        a == kw @@ defaults
    IN  IF ~Bindable(kw, {"points"}, defaults) THEN Raise("TypeError")
        ELSE Ok(<<[type |-> "spline", points |-> a.points, degree |-> a.degree,
                   layer |-> _get_layer(cfg, a.layer)]>>, FALSE)

\* scale is passed through in hundredths (default 1.0)
_draw_hatch(cfg, kw) ==
    LET defaults == [pattern |-> "ANSI31", layer |-> "HATCH", scale |-> 100]
        a == kw @@ defaults
    IN  IF ~Bindable(kw, {"points"}, defaults) THEN Raise("TypeError")
        ELSE Ok(<<[type |-> "hatch", points |-> a.points, pattern |-> a.pattern,
                   layer |-> _get_layer(cfg, a.layer), scale |-> a.scale]>>, FALSE)

BasicShapeOps == {"circle", "rectangle", "line", "centerline", "hiddenline", "phantomline",
                  "borderline", "polyline", "arc", "ellipse", "spline", "hatch"}

\* validate_params without the radius > 0 test for circles
BasicShapeDrawer_validate_params_NoRadiusTest(operation, kw) ==
    IF ~Base_validate_params(operation, kw) THEN FALSE
    ELSE CASE operation = "circle" -> {"center", "radius"} \subseteq DOMAIN kw
           [] operation = "rectangle" ->
                /\ {"lower_left", "width", "height"} \subseteq DOMAIN kw
                /\ kw.width > 0 /\ kw.height > 0
           [] operation \in {"line", "centerline", "hiddenline", "phantomline", "borderline"} ->
                {"start", "end"} \subseteq DOMAIN kw
           [] operation = "polyline" -> "points" \in DOMAIN kw /\ Len(kw.points) >= 2
           [] operation = "arc" ->
                /\ {"center", "radius", "start_angle", "end_angle"} \subseteq DOMAIN kw
                /\ kw.radius > 0
           [] operation = "ellipse" -> {"center", "major_axis", "ratio"} \subseteq DOMAIN kw
           [] operation = "spline" -> "points" \in DOMAIN kw /\ Len(kw.points) >= 2
           [] operation = "hatch" -> "points" \in DOMAIN kw /\ Len(kw.points) >= 3
           [] OTHER -> TRUE

BasicShapeDrawer_validate_params(operation, kw) ==
    IF ~Base_validate_params(operation, kw) THEN FALSE
    ELSE CASE operation = "circle" ->
                {"center", "radius"} \subseteq DOMAIN kw /\ kw.radius > 0
           [] operation = "rectangle" ->
                /\ {"lower_left", "width", "height"} \subseteq DOMAIN kw
                /\ kw.width > 0 /\ kw.height > 0
           [] operation \in {"line", "centerline", "hiddenline", "phantomline", "borderline"} ->
                {"start", "end"} \subseteq DOMAIN kw
           [] operation = "polyline" -> "points" \in DOMAIN kw /\ Len(kw.points) >= 2
           [] operation = "arc" ->
                /\ {"center", "radius", "start_angle", "end_angle"} \subseteq DOMAIN kw
                /\ kw.radius > 0
           [] operation = "ellipse" -> {"center", "major_axis", "ratio"} \subseteq DOMAIN kw
           [] operation = "spline" -> "points" \in DOMAIN kw /\ Len(kw.points) >= 2
           [] operation = "hatch" -> "points" \in DOMAIN kw /\ Len(kw.points) >= 3
           [] OTHER -> TRUE

BasicShapeDrawer_draw(cfg, operation, kw) ==
    IF ~BasicShapeDrawer_validate_params(operation, kw) THEN Raise("ValueError")
    ELSE CASE operation = "circle"      -> _draw_circle(cfg, kw)
           [] operation = "rectangle"   -> _draw_rectangle(cfg, kw)
           [] operation = "line"        -> _draw_line(cfg, kw)
           [] operation = "centerline"  -> _draw_centerline(cfg, kw)
           [] operation = "hiddenline"  -> _draw_hiddenline(cfg, kw)
           [] operation = "phantomline" -> _draw_phantomline(cfg, kw)
           [] operation = "borderline"  -> _draw_borderline(cfg, kw)
           [] operation = "polyline"    -> _draw_polyline(cfg, kw)
           [] operation = "arc"         -> _draw_arc(cfg, kw)
           [] operation = "ellipse"     -> _draw_ellipse(cfg, kw)
           [] operation = "spline"      -> _draw_spline(cfg, kw)
           [] operation = "hatch"       -> _draw_hatch(cfg, kw)
           [] OTHER                     -> Raise("ValueError")

-----------------------------------------------------------------------------
(* DimensionDrawer.  An angle in radians is a pair <<n, d>> standing for   *)
(* n*pi/d in lowest terms.  An optional argument that is passed to the     *)
(* canvas is <<v>>, one that is None or not passed is <<>>.  Tolerances    *)
(* are floats given in hundredths; the nominal size is a Python int.       *)

RECURSIVE Gcd(_, _)
Gcd(a, b) == IF b = 0 THEN a ELSE Gcd(b, a % b)

\* n*pi/d in lowest terms
PiFrac(n, d) ==
    LET g == Gcd(Abs(n), d) IN IF n = 0 THEN <<0, 1>> ELSE <<n \div g, d \div g>>

\* a conversion that takes the degrees for gradians (200 to the half turn)
_deg2rad_Gradians(degrees) == PiFrac(degrees, 200)

\* DimensionDrawer._deg2rad
_deg2rad(degrees) == PiFrac(degrees, 180)

\* math.atan2(y, x) for the directions whose angle is a multiple of pi/4
Atan2(y, x) ==
    CASE y = 0 /\ x >= 0          -> PiFrac(0, 1)
      [] y = 0 /\ x < 0           -> PiFrac(1, 1)
      [] x = 0 /\ y > 0           -> PiFrac(1, 2)
      [] x = 0 /\ y < 0           -> PiFrac(-1, 2)
      [] x > 0 /\ y = x           -> PiFrac(1, 4)
      [] x > 0 /\ y = -x          -> PiFrac(-1, 4)
      [] x < 0 /\ y = -x          -> PiFrac(3, 4)
      [] x < 0 /\ y = x           -> PiFrac(-3, 4)

\* the override dict {'dimdle': 0.5, 'dimexe': 0.5}
StdOverride == [dimdle |-> 5, dimexe |-> 5]

\* canvas.add_linear_dim(base=, p1=, p2=, text=/angle= when passed, dimstyle=,
\* override=, layer=)
LinearDim(base, p1, p2, text, angle, override, layer) ==
    [type |-> "linear_dim", base |-> base, p1 |-> p1, p2 |-> p2, text |-> text,
     angle |-> angle, dimstyle |-> "Standard", override |-> override, layer |-> layer]

\* str() of a Python float given in hundredths: 5 -> "0.05", -2 -> "-0.02",
\* 10 -> "0.1", 100 -> "1.0"
FloatStr(h) ==
    LET m == Abs(h)
        ip == m \div 100
        fp == m % 100
        frac == IF fp % 10 = 0 THEN ToString(fp \div 10)
                ELSE ToString(fp \div 10) \o ToString(fp % 10)
    IN  (IF h < 0 THEN "-" ELSE "") \o ToString(ip) \o "." \o frac

\* a tolerance text that gives '+' to positive tolerances only
TolText_PlusForPositive(nominal, upper_tol, lower_tol) ==
    LET upper_text == IF upper_tol > 0 THEN "+" \o FloatStr(upper_tol) ELSE FloatStr(upper_tol)
        lower_text == IF lower_tol > 0 THEN "+" \o FloatStr(lower_tol) ELSE FloatStr(lower_tol)
    IN  ToString(nominal) \o upper_text \o "/" \o lower_text

\* the f-string that builds the tolerance text
TolText(nominal, upper_tol, lower_tol) ==
    LET upper_text == IF upper_tol >= 0 THEN "+" \o FloatStr(upper_tol) ELSE FloatStr(upper_tol)
        lower_text == IF lower_tol >= 0 THEN "+" \o FloatStr(lower_tol) ELSE FloatStr(lower_tol)
    IN  ToString(nominal) \o upper_text \o "/" \o lower_text

\* a base point that always lies below the lower endpoint
LinearBase_BelowOnly(p1, p2, distance) ==
    <<Min(p1[1], p2[1]), Min(p1[2], p2[2]) - Abs(distance)>>

\* base=(min(p1[0], p2[0]), min(p1[1], p2[1]) - distance)
LinearBase(p1, p2, distance) ==
    <<Min(p1[1], p2[1]), Min(p1[2], p2[2]) - distance>>

_add_dimension(cfg, kw) ==
    LET defaults == [text |-> <<>>]
        a == kw @@ defaults
    IN  IF ~Bindable(kw, {"p1", "p2", "distance"}, defaults) THEN Raise("TypeError")
        ELSE Ok(<<LinearDim(LinearBase(a.p1, a.p2, a.distance), a.p1, a.p2, a.text,
                            <<>>, StdOverride, _get_layer(cfg, "DIMENSIONS"))>>, FALSE)

\* _add_radius_dimension and _add_diameter_dimension: the same body, calling
\* canvas.add_radius_dim or canvas.add_diameter_dim
_add_round_dimension(cfg, kw, primType) ==
    LET defaults == [angle |-> 45, text |-> <<>>]
        a == kw @@ defaults
    IN  IF ~Bindable(kw, {"center", "radius"}, defaults) THEN Raise("TypeError")
        ELSE Ok(<<[type |-> primType, center |-> a.center, radius |-> a.radius,
                   angle |-> _deg2rad(a.angle), text |-> a.text, dimstyle |-> "Standard",
                   override |-> StdOverride, layer |-> _get_layer(cfg, "DIMENSIONS")]>>, FALSE)

_add_radius_dimension(cfg, kw) == _add_round_dimension(cfg, kw, "radius_dim")

_add_diameter_dimension(cfg, kw) == _add_round_dimension(cfg, kw, "diameter_dim")

_add_angular_dimension(cfg, kw) ==
    LET defaults == [text |-> <<>>]
        a == kw @@ defaults
    IN  IF ~Bindable(kw, {"center", "p1", "p2"}, defaults) THEN Raise("TypeError")
        ELSE Ok(<<[type |-> "angular_dim", center |-> a.center, p1 |-> a.p1,
                   p2 |-> a.p2, text |-> a.text, dimstyle |-> "Standard",
                   override |-> StdOverride, layer |-> _get_layer(cfg, "DIMENSIONS")]>>, FALSE)

_add_aligned_dimension(cfg, kw) ==
    LET defaults == [text |-> <<>>]
        a == kw @@ defaults
    IN  IF ~Bindable(kw, {"p1", "p2", "distance"}, defaults) THEN Raise("TypeError")
        ELSE Ok(<<[type |-> "aligned_dim", p1 |-> a.p1, p2 |-> a.p2,
                   distance |-> a.distance, text |-> a.text, dimstyle |-> "Standard",
                   override |-> StdOverride, layer |-> _get_layer(cfg, "DIMENSIONS")]>>, FALSE)

\* baseline dimensions whose offsets count the points from 1
_add_baseline_dimensions_FromOne(cfg, kw) ==
    LET a == kw @@ [spacing |-> U(10), direction |-> <<1, 0>>]
    IN  Ok([k \in 1..Len(a.points) |->
                LinearDim(a.base_point, a.base_point, a.points[k], <<>>,
                          <<Atan2(a.direction[2], a.direction[1])>>,
                          [dimdle |-> 5, dimexe |-> 5, dimexo |-> a.spacing * k],
                          _get_layer(cfg, "DIMENSIONS"))], TRUE)

\* one linear dimension per point, in order; `text` is accepted and unused
_add_baseline_dimensions(cfg, kw) ==
    LET defaults == [spacing |-> U(10), direction |-> <<1, 0>>, text |-> <<>>]
        a == kw @@ defaults
        mapped_layer == _get_layer(cfg, "DIMENSIONS")
    IN  IF ~Bindable(kw, {"base_point", "points"}, defaults) THEN Raise("TypeError")
        ELSE Ok([k \in 1..Len(a.points) |->
                    LinearDim(a.base_point, a.base_point, a.points[k], <<>>,
                              <<Atan2(a.direction[2], a.direction[1])>>,
                              [dimdle |-> 5, dimexe |-> 5, dimexo |-> a.spacing * (k - 1)],
                              mapped_layer)], TRUE)

_add_dimension_with_tolerance(cfg, kw) ==
    IF ~Bindable(kw, {"p1", "p2", "distance", "nominal", "upper_tol", "lower_tol"}, EmptyKw)
    THEN Raise("TypeError")
    ELSE Ok(<<LinearDim(LinearBase(kw.p1, kw.p2, kw.distance), kw.p1, kw.p2,
                        <<TolText(kw.nominal, kw.upper_tol, kw.lower_tol)>>, <<>>,
                        StdOverride, _get_layer(cfg, "DIMENSIONS"))>>, FALSE)

DimensionOps == {"linear", "radius", "diameter", "angular", "aligned", "baseline", "tolerance"}

DimensionDrawer_validate_params(operation, kw) ==
    IF ~Base_validate_params(operation, kw) THEN FALSE
    ELSE CASE operation = "linear" -> {"p1", "p2", "distance"} \subseteq DOMAIN kw
           [] operation \in {"radius", "diameter"} ->
                {"center", "radius"} \subseteq DOMAIN kw /\ kw.radius > 0
           [] operation = "angular" -> {"center", "p1", "p2"} \subseteq DOMAIN kw
           [] operation = "aligned" -> {"p1", "p2", "distance"} \subseteq DOMAIN kw
           [] operation = "baseline" ->
                {"base_point", "points"} \subseteq DOMAIN kw /\ Len(kw.points) > 0
           [] operation = "tolerance" ->
                {"p1", "p2", "distance", "nominal", "upper_tol", "lower_tol"} \subseteq DOMAIN kw
           [] OTHER -> TRUE

DimensionDrawer_draw(cfg, operation, kw) ==
    IF ~DimensionDrawer_validate_params(operation, kw) THEN Raise("ValueError")
    ELSE CASE operation = "linear"    -> _add_dimension(cfg, kw)
           [] operation = "radius"    -> _add_radius_dimension(cfg, kw)
           [] operation = "diameter"  -> _add_diameter_dimension(cfg, kw)
           [] operation = "angular"   -> _add_angular_dimension(cfg, kw)
           [] operation = "aligned"   -> _add_aligned_dimension(cfg, kw)
           [] operation = "baseline"  -> _add_baseline_dimensions(cfg, kw)
           [] operation = "tolerance" -> _add_dimension_with_tolerance(cfg, kw)
           [] OTHER                   -> Raise("ValueError")

-----------------------------------------------------------------------------
(* SymbolDrawer.  Text heights are given in tenths (2.5 is 25) and are     *)
(* multiples of 5 tenths, so that height*0.8 is integral.  An optional     *)
(* string that is None is "", which Python's truth test treats alike.      *)

\* a text placed with height and layer only
PlainText(text, position, height, layer) == Text(text, position, height, layer, "", -1, -1)

\* height * 0.8
Scale08(height) == (height * 8) \div 10

_add_roughness(cfg, kw) ==
    LET defaults == [height |-> 30]
        a == kw @@ defaults
        x == a.position[1]
        y == a.position[2]
        mapped_layer == _get_layer(cfg, "DIMENSIONS")
        text_layer == _get_layer(cfg, "TEXT")
    IN  IF ~Bindable(kw, {"position", "roughness_value"}, defaults) THEN Raise("TypeError")
        ELSE Ok(<<Line(<<x, y>>, <<x, y + 60>>, mapped_layer, ""),
                  Line(<<x, y + 60>>, <<x + 40, y + 100>>, mapped_layer, ""),
                  Line(<<x + 40, y + 100>>, <<x + 100, y + 100>>, mapped_layer, ""),
                  PlainText("Ra" \o a.roughness_value, <<x + 150, y + 100>>, a.height,
                            text_layer)>>, TRUE)

\* ", ".join(parts)
RECURSIVE JoinComma(_)
JoinComma(parts) ==
    IF Len(parts) = 0 THEN ""
    ELSE IF Len(parts) = 1 THEN parts[1]
    ELSE parts[1] \o ", " \o JoinComma(Tail(parts))

\* sym_height = sym_width = 10; the Greek lambda of the cutoff label is written "l"
_add_advanced_surface_finish(cfg, kw) ==
    LET defaults == [machining_method |-> "", waviness |-> "", lay |-> "", cutoff |-> "",
                     height |-> 25]
        a == kw @@ defaults
        x == a.position[1]
        y == a.position[2]
        mapped_layer == _get_layer(cfg, "SURFACE_FINISH")
        text_x == x + 120
        text_y == y + 50
        basic == <<Line(<<x, y>>, <<x, y + 60>>, mapped_layer, ""),
                   Line(<<x, y + 60>>, <<x + 40, y + 100>>, mapped_layer, ""),
                   Line(<<x + 40, y + 100>>, <<x + 100, y + 100>>, mapped_layer, "")>>
        method == IF a.machining_method # ""
                  THEN <<Line(<<x, y + 60>>, <<x + 100, y + 60>>, mapped_layer, ""),
                         PlainText(a.machining_method, <<x + 50, y + 80>>, a.height,
                                   mapped_layer)>>
                  ELSE <<>>
        ra == <<PlainText("Ra" \o a.ra_value, <<text_x, text_y>>, a.height, mapped_layer)>>
        extra_info == (IF a.waviness # "" THEN <<"W" \o a.waviness>> ELSE <<>>)
                      \o (IF a.lay # "" THEN <<"Lay " \o a.lay>> ELSE <<>>)
                      \o (IF a.cutoff # "" THEN <<"lc " \o a.cutoff>> ELSE <<>>)
        extra == IF Len(extra_info) > 0
                 THEN <<PlainText(JoinComma(extra_info), <<text_x, y + 20>>,
                                  Scale08(a.height), mapped_layer)>>
                 ELSE <<>>
    IN  IF ~Bindable(kw, {"position", "ra_value"}, defaults) THEN Raise("TypeError")
        ELSE Ok(basic \o method \o ra \o extra, TRUE)

\* box_width = 14, box_height = 7, datum box 7 wide
_add_geometric_tolerance(cfg, kw) ==
    LET defaults == [datum |-> "", height |-> 25]
        a == kw @@ defaults
        x == a.position[1]
        y == a.position[2]
        mapped_layer == _get_layer(cfg, "TOLERANCE")
        box == <<Line(<<x, y>>, <<x + 140, y>>, mapped_layer, ""),
                 Line(<<x + 140, y>>, <<x + 140, y + 70>>, mapped_layer, ""),
                 Line(<<x + 140, y + 70>>, <<x, y + 70>>, mapped_layer, ""),
                 Line(<<x, y + 70>>, <<x, y>>, mapped_layer, "")>>
        datumBox == IF a.datum # ""
                    THEN <<Line(<<x + 140, y>>, <<x + 210, y>>, mapped_layer, ""),
                           Line(<<x + 210, y>>, <<x + 210, y + 70>>, mapped_layer, ""),
                           Line(<<x + 210, y + 70>>, <<x + 140, y + 70>>, mapped_layer, ""),
                           PlainText(a.datum, <<x + 175, y + 35>>, a.height, mapped_layer)>>
                    ELSE <<>>
        texts == <<PlainText(a.symbol, <<x + 30, y + 35>>, a.height, mapped_layer),
                   PlainText(a.tolerance, <<x + 100, y + 35>>, a.height, mapped_layer)>>
    IN  IF ~Bindable(kw, {"position", "symbol", "tolerance"}, defaults) THEN Raise("TypeError")
        ELSE Ok(box \o datumBox \o texts, TRUE)

\* sym_length = 30, arrow_size = 3, flag_height = 5
_add_welding_symbol(cfg, kw) ==
    LET defaults == [size |-> "", length |-> "", process |-> "", finish |-> "",
                     field |-> FALSE, height |-> 25]
        a == kw @@ defaults
        x == a.position[1]
        y == a.position[2]
        mapped_layer == _get_layer(cfg, "WELD_SYMBOL")
        base == <<Line(<<x, y>>, <<x + 300, y>>, mapped_layer, ""),
                  Line(<<x, y>>, <<x + 30, y + 30>>, mapped_layer, ""),
                  Line(<<x, y>>, <<x + 30, y - 30>>, mapped_layer, "")>>
        flag == IF a.field
                THEN <<Line(<<x + 240, y>>, <<x + 240, y + 50>>, mapped_layer, ""),
                       Circle(<<x + 240, y + 60>>, U(1), mapped_layer)>>
                ELSE <<>>
        sym_x == x + 150
        sym_y == y + 30
        weld == <<PlainText(a.weld_type, <<sym_x, sym_y>>, a.height, mapped_layer)>>
        info_text == a.size \o (IF a.length # ""
                                THEN (IF a.size # "" THEN "-" ELSE "") \o a.length
                                ELSE "")
        info == IF info_text # ""
                THEN <<PlainText(info_text, <<sym_x, y - 30>>, a.height, mapped_layer)>>
                ELSE <<>>
        proc_text == a.process \o (IF a.finish # ""
                                   THEN (IF a.process # "" THEN ", " ELSE "") \o a.finish
                                   ELSE "")
        proc == IF a.process # "" \/ a.finish # ""
                THEN <<PlainText(proc_text, <<x + 150, y - 60>>, Scale08(a.height),
                                 mapped_layer)>>
                ELSE <<>>
    IN  IF ~Bindable(kw, {"position", "weld_type"}, defaults) THEN Raise("TypeError")
        ELSE Ok(base \o flag \o weld \o info \o proc, TRUE)

(* Leader arrow.  With d = end - start and dist = |d|, the source          *)
(* normalises d (when dist > 0) and multiplies it back: (d/dist)*dist*0.2  *)
(* is 0.2*d, exact for the multiples of 5 tenths; for dist = 0 it is 0.    *)
(* abs(dy/dist) < 0.05 is 400*dy*dy < dx*dx + dy*dy for dist > 0, and for  *)
(* dist = 0 the unnormalised dy = 0 is compared.  No integer vector lies   *)
(* on the threshold (399 is no square), so rounding cannot change sides.   *)

\* a leader that ends at start_point itself, without the extension
LeaderAnchor_NoExtension(start_point, end_point) == start_point

\* extended_start: start - d_normalised * dist * extension_factor
LeaderAnchor(start_point, end_point) ==
    LET dx == end_point[1] - start_point[1]
        dy == end_point[2] - start_point[2]
    IN  <<start_point[1] - (2 * dx) \div 10, start_point[2] - (2 * dy) \div 10>>

\* a test that takes only exactly level leaders for horizontal
LeaderIsHorizontal_Exact(start_point, end_point) == end_point[2] = start_point[2]

\* is_horizontal = abs(dy) < 0.05, dy normalised when dist > 0
LeaderIsHorizontal(start_point, end_point) ==
    LET dx == end_point[1] - start_point[1]
        dy == end_point[2] - start_point[2]
        dist2 == dx * dx + dy * dy
    IN  IF dist2 > 0 THEN 400 * dy * dy < dist2 ELSE Abs(dy) * 100 < 50

\* a landing that runs the way the leader's target lies
LeaderLandingDirection_TowardEnd(start_point, end_point) ==
    IF end_point[1] - start_point[1] > 0 THEN 1 ELSE -1

\* a landing that looks at the side of the end point only beyond the threshold
\* and goes to the right for every leader within it
LeaderLandingDirection_FarOnly(start_point, end_point) ==
    LET view_direction_x == start_point[1] - end_point[1]
    IN  IF Abs(view_direction_x) > U(10)
        THEN (IF view_direction_x > 0 THEN 1 ELSE -1)
        ELSE 1

\* horiz_direction of the non-horizontal branch
LeaderLandingDirection(start_point, end_point) ==
    LET dx == end_point[1] - start_point[1]
        view_direction_x == start_point[1] - end_point[1]
    IN  IF Abs(view_direction_x) > U(10)
        THEN (IF view_direction_x > 0 THEN 1 ELSE -1)
        ELSE (IF dx > 0 THEN -1 ELSE 1)

\* a stub that always goes to the right
LeaderStubDirection_Right(start_point, end_point) == 1

\* horiz_direction of the horizontal branch
LeaderStubDirection(start_point, end_point) ==
    IF start_point[1] < end_point[1] THEN 1 ELSE -1

\* horizontal_length = 10, extra_length = 1, text_offset = 5, height = 3.5
_add_leader_arrow(cfg, kw) ==
    LET mapped_dimensions_layer == _get_layer(cfg, "DIMENSIONS")
        mapped_text_layer == _get_layer(cfg, "TEXT")
        extended_start == LeaderAnchor(kw.start_point, kw.end_point)
        is_horizontal == LeaderIsHorizontal(kw.start_point, kw.end_point)
        horiz_direction == IF ~is_horizontal
                           THEN LeaderLandingDirection(kw.start_point, kw.end_point)
                           ELSE LeaderStubDirection(kw.start_point, kw.end_point)
        seg_length == IF ~is_horizontal THEN U(10) ELSE U(1)
        horiz_end == <<extended_start[1] + seg_length * horiz_direction, extended_start[2]>>
        text_point == <<horiz_end[1] + U(5) * horiz_direction, horiz_end[2]>>
    IN  IF ~Bindable(kw, {"start_point", "end_point", "text"}, EmptyKw) THEN Raise("TypeError")
        ELSE Ok(<<Line(kw.end_point, extended_start, mapped_dimensions_layer, ""),
                  Line(extended_start, horiz_end, mapped_dimensions_layer, ""),
                  Text(kw.text, text_point, 35, mapped_text_layer, "", 1, 2)>>, TRUE)

SymbolOps == {"roughness", "advanced_surface_finish", "geometric_tolerance",
              "welding_symbol", "leader_arrow"}

SymbolDrawer_validate_params(operation, kw) ==
    IF ~Base_validate_params(operation, kw) THEN FALSE
    ELSE CASE operation = "roughness" -> {"position", "roughness_value"} \subseteq DOMAIN kw
           [] operation = "advanced_surface_finish" ->
                {"position", "ra_value"} \subseteq DOMAIN kw
           [] operation = "geometric_tolerance" ->
                {"position", "symbol", "tolerance"} \subseteq DOMAIN kw
           [] operation = "welding_symbol" -> {"position", "weld_type"} \subseteq DOMAIN kw
           [] operation = "leader_arrow" ->
                {"start_point", "end_point", "text"} \subseteq DOMAIN kw
           [] OTHER -> TRUE

SymbolDrawer_draw(cfg, operation, kw) ==
    IF ~SymbolDrawer_validate_params(operation, kw) THEN Raise("ValueError")
    ELSE CASE operation = "roughness"               -> _add_roughness(cfg, kw)
           [] operation = "advanced_surface_finish" -> _add_advanced_surface_finish(cfg, kw)
           [] operation = "geometric_tolerance"     -> _add_geometric_tolerance(cfg, kw)
           [] operation = "welding_symbol"          -> _add_welding_symbol(cfg, kw)
           [] operation = "leader_arrow"            -> _add_leader_arrow(cfg, kw)
           [] OTHER                                 -> Raise("ValueError")

-----------------------------------------------------------------------------
(* ViewDrawer.  The section line is drawn for cutting planes of integral   *)
(* length (axis-parallel, or a multiple of the 3-4-5 triangle), for which  *)
(* every coordinate is an exact number of tenths.                          *)

\* math.sqrt of a perfect square
ISqrt(n) == CHOOSE r \in 0..n : r * r = n

\* t * (comp / length): the length t along a unit vector's component
Along(t, comp, length) == (t * comp) \div length

\* a section line that draws its main line whatever the length
_add_section_line_MainLineAlways(cfg, kw) ==
    Ok(<<Line(kw.start_point, kw.end_point, _get_layer(cfg, "CUTTING_PLANE"), "CENTER")>>, TRUE)

\* arrow_offset = 5, text_offset = 8, text height 5
_add_section_line(cfg, kw) ==
    LET defaults == [section_label |-> "A", arrow_size |-> U(3)]
        a == kw @@ defaults
        s == a.start_point
        e == a.end_point
        mapped_layer == _get_layer(cfg, "CUTTING_PLANE")
        dx == e[1] - s[1]
        dy == e[2] - s[2]
        length == ISqrt(dx * dx + dy * dy)
        \* the length t along the direction (dx, dy)/length, and along the normal (-dy, dx)/length
        ux(t) == Along(t, dx, length)
        uy(t) == Along(t, dy, length)
        nx(t) == Along(t, -dy, length)
        ny(t) == Along(t, dx, length)
        arrow1_center == <<s[1] + ux(U(5)), s[2] + uy(U(5))>>
        arrow2_center == <<e[1] - ux(U(5)), e[2] - uy(U(5))>>
        z == a.arrow_size
        label == a.section_label \o "-" \o a.section_label
    IN  IF ~Bindable(kw, {"start_point", "end_point"}, defaults) THEN Raise("TypeError")
        ELSE IF length > 0
        THEN Ok(<<Line(s, e, mapped_layer, "CENTER"),
                  Line(<<arrow1_center[1] - ux(z) + nx(z), arrow1_center[2] - uy(z) + ny(z)>>,
                       arrow1_center, mapped_layer, ""),
                  Line(<<arrow1_center[1] - ux(z) - nx(z), arrow1_center[2] - uy(z) - ny(z)>>,
                       arrow1_center, mapped_layer, ""),
                  Line(<<arrow2_center[1] + ux(z) + nx(z), arrow2_center[2] + uy(z) + ny(z)>>,
                       arrow2_center, mapped_layer, ""),
                  Line(<<arrow2_center[1] + ux(z) - nx(z), arrow2_center[2] + uy(z) - ny(z)>>,
                       arrow2_center, mapped_layer, ""),
                  PlainText(label, <<s[1] - ux(U(8)), s[2] - uy(U(8))>>, 50, mapped_layer),
                  PlainText(label, <<e[1] + ux(U(8)), e[2] + uy(U(8))>>, 50, mapped_layer)>>,
                TRUE)
        ELSE Ok(<<>>, TRUE)

\* n/d tenths: the whole number when there is one, else the fraction in lowest
\* terms
Exact(n, d) ==
    LET g == Gcd(Abs(n), d) IN IF n % d = 0 THEN n \div d ELSE <<n \div g, d \div g>>

\* The label's prefix is three CJK characters and a space; "SEC " stands for
\* them, with the same length.  text_length = len(text) * height * 0.6, and
\* the underline spans text_length/2 to either side: x -+ len * height * 6/20.
_add_section_view_label(cfg, kw) ==
    LET defaults == [section_label |-> "A-A", height |-> 50]
        a == kw @@ defaults
        mapped_layer == _get_layer(cfg, "TEXT")
        text == "SEC " \o a.section_label
        x == a.position[1]
        y == a.position[2]
        reach == Len(text) * a.height * 6
    IN  IF ~Bindable(kw, {"position"}, defaults) THEN Raise("TypeError")
        ELSE Ok(<<PlainText(text, a.position, a.height, mapped_layer),
                  Line(<<Exact(20 * x - reach, 20), y - Scale08(a.height)>>,
                       <<Exact(20 * x + reach, 20), y - Scale08(a.height)>>,
                       mapped_layer, "")>>, TRUE)

\* the two labels sit 1.2 * radius above and below the centre
_add_detail_view(cfg, kw) ==
    LET defaults == [detail_label |-> "B", scale |-> "2:1"]
        a == kw @@ defaults
        mapped_layer == _get_layer(cfg, "DETAIL")
        c == a.center
    IN  IF ~Bindable(kw, {"center", "radius"}, defaults) THEN Raise("TypeError")
        ELSE Ok(<<Circle(c, a.radius, mapped_layer),
                  PlainText(a.detail_label, <<c[1], c[2] + (12 * a.radius) \div 10>>, 50, mapped_layer),
                  PlainText(a.scale, <<c[1], c[2] - (12 * a.radius) \div 10>>, 35, mapped_layer)>>, TRUE)

_add_text(cfg, kw) ==
    LET defaults == [height |-> 25, layer |-> "TEXT", style |-> "chinese", valign |-> 1,
                     halign |-> 1]
        a == kw @@ defaults
    IN  IF ~Bindable(kw, {"text", "position"}, defaults) THEN Raise("TypeError")
        ELSE Ok(<<Text(a.text, a.position, a.height, _get_layer(cfg, a.layer), a.style,
                       a.halign, a.valign)>>, FALSE)

ViewOps == {"section_line", "section_view_label", "detail_view", "text"}

ViewDrawer_validate_params(operation, kw) ==
    IF ~Base_validate_params(operation, kw) THEN FALSE
    ELSE CASE operation = "section_line" -> {"start_point", "end_point"} \subseteq DOMAIN kw
           [] operation = "section_view_label" -> "position" \in DOMAIN kw
           [] operation = "detail_view" ->
                {"center", "radius"} \subseteq DOMAIN kw /\ kw.radius > 0
           [] operation = "text" -> {"text", "position"} \subseteq DOMAIN kw
           [] OTHER -> TRUE

\* draw without the final else: an unknown kind falls through and returns None
ViewDrawer_draw_NoElse(cfg, operation, kw) ==
    IF ~ViewDrawer_validate_params(operation, kw) THEN Raise("ValueError")
    ELSE CASE operation = "section_line"       -> _add_section_line(cfg, kw)
           [] operation = "section_view_label" -> _add_section_view_label(cfg, kw)
           [] operation = "detail_view"        -> _add_detail_view(cfg, kw)
           [] operation = "text"               -> _add_text(cfg, kw)
           [] OTHER                            -> Ok(<<>>, FALSE)

ViewDrawer_draw(cfg, operation, kw) ==
    IF ~ViewDrawer_validate_params(operation, kw) THEN Raise("ValueError")
    ELSE CASE operation = "section_line"       -> _add_section_line(cfg, kw)
           [] operation = "section_view_label" -> _add_section_view_label(cfg, kw)
           [] operation = "detail_view"        -> _add_detail_view(cfg, kw)
           [] operation = "text"               -> _add_text(cfg, kw)
           [] OTHER                            -> Raise("ValueError")

-----------------------------------------------------------------------------
(* The strategy classes the factory registers, and draw() of an instance   *)
(* of each.                                                                *)

StrategyClasses == {"BasicShapeDrawer", "DimensionDrawer", "SymbolDrawer", "ViewDrawer"}

StrategyOps(class) ==
    CASE class = "BasicShapeDrawer" -> BasicShapeOps
      [] class = "DimensionDrawer"  -> DimensionOps
      [] class = "SymbolDrawer"     -> SymbolOps
      [] class = "ViewDrawer"       -> ViewOps

StrategyDraw(class, cfg, operation, kw) ==
    CASE class = "BasicShapeDrawer" -> BasicShapeDrawer_draw(cfg, operation, kw)
      [] class = "DimensionDrawer"  -> DimensionDrawer_draw(cfg, operation, kw)
      [] class = "SymbolDrawer"     -> SymbolDrawer_draw(cfg, operation, kw)
      [] class = "ViewDrawer"       -> ViewDrawer_draw(cfg, operation, kw)

-----------------------------------------------------------------------------
(* The draw calls a caller makes on a strategy: for every operation kind a  *)
(* complete call, the same call with any one keyword left out, the call     *)
(* with no keyword at all, and the calls that break a numeric constraint;   *)
(* and calls with a kind the strategy does not know.                        *)

Without(kw, f) == [g \in (DOMAIN kw) \ {f} |-> kw[g]]

\* kw itself, kw with one keyword missing, and the empty call
Thinned(kw) == {kw, EmptyKw} \cup {Without(kw, f) : f \in DOMAIN kw}

Calls(operation, kws) == {[op |-> operation, kw |-> k] : k \in kws}

ThreePoints == <<(<<0, 0>>), (<<40, 0>>), (<<40, 30>>)>>

LineKw == [start |-> <<0, 0>>, end |-> <<40, 30>>]

BasicShapeCalls ==
    Calls("circle", Thinned([center |-> <<10, 20>>, radius |-> 50])
                    \cup {[center |-> <<10, 20>>, radius |-> r] : r \in {0, -50}}
                    \cup {[center |-> <<10, 20>>, radius |-> 50, layer |-> "HIDDEN"]})
    \cup Calls("rectangle", Thinned([lower_left |-> <<10, 20>>, width |-> 40, height |-> 30])
                    \cup {[lower_left |-> <<10, 20>>, width |-> wh[1], height |-> wh[2]] :
                            wh \in {<<0, 30>>, <<40, 0>>, <<-40, 30>>, <<40, -30>>}})
    \cup Calls("line", Thinned(LineKw) \cup {LineKw @@ [layer |-> "PARTS"]})
    \cup Calls("centerline", Thinned(LineKw) \cup {LineKw @@ [layer |-> "PARTS"]})
    \cup UNION {Calls(v, Thinned(LineKw)) : v \in {"hiddenline", "phantomline", "borderline"}}
    \cup Calls("polyline", Thinned([points |-> ThreePoints, closed |-> TRUE])
                    \cup {[points |-> SubSeq(ThreePoints, 1, n)] : n \in 0..2})
    \cup Calls("arc", Thinned([center |-> <<10, 20>>, radius |-> 50, start_angle |-> 0,
                               end_angle |-> 90])
                    \cup {[center |-> <<10, 20>>, radius |-> r, start_angle |-> 0,
                           end_angle |-> 90] : r \in {0, -50}})
    \cup Calls("ellipse", Thinned([center |-> <<10, 20>>, major_axis |-> <<40, 0>>,
                                   ratio |-> 50]))
    \cup Calls("spline", {EmptyKw} \cup {[points |-> SubSeq(ThreePoints, 1, n)] : n \in 0..3})
    \cup Calls("hatch", {EmptyKw} \cup {[points |-> SubSeq(ThreePoints, 1, n)] : n \in 0..3})

LinearKw == [p1 |-> <<0, 0>>, p2 |-> <<40, 30>>, distance |-> 50]

DimensionCalls ==
    Calls("linear", Thinned(LinearKw) \cup {LinearKw @@ [text |-> <<"L">>]}
                    \cup {[LinearKw EXCEPT !.distance = d] : d \in {-50, 0}})
    \cup UNION {Calls(v, Thinned([center |-> <<10, 20>>, radius |-> 50, angle |-> 30])
                    \cup {[center |-> <<10, 20>>, radius |-> r] : r \in {-50, 0, 50}}) :
                    v \in {"radius", "diameter"}}
    \cup Calls("angular", Thinned([center |-> <<0, 0>>, p1 |-> <<40, 0>>, p2 |-> <<0, 30>>]))
    \cup Calls("aligned", Thinned(LinearKw))
    \cup Calls("baseline", Thinned([base_point |-> <<0, 0>>, points |-> ThreePoints,
                                    spacing |-> 80, direction |-> <<0, 1>>])
                    \cup {[base_point |-> <<0, 0>>, points |-> SubSeq(ThreePoints, 1, n)] :
                            n \in 0..2})
    \cup Calls("tolerance", Thinned(LinearKw @@ [nominal |-> 25, upper_tol |-> 5,
                                                 lower_tol |-> -2]))

SymbolCalls ==
    Calls("roughness", Thinned([position |-> <<10, 20>>, roughness_value |-> "3.2",
                                height |-> 35]))
    \cup Calls("advanced_surface_finish",
               Thinned([position |-> <<10, 20>>, ra_value |-> "1.6", machining_method |-> "M",
                        waviness |-> "0.8", cutoff |-> "2.5"]))
    \cup Calls("geometric_tolerance",
               Thinned([position |-> <<10, 20>>, symbol |-> "//", tolerance |-> "0.02",
                        datum |-> "A"]))
    \cup Calls("welding_symbol",
               Thinned([position |-> <<10, 20>>, weld_type |-> "V", size |-> "6",
                        length |-> "50", finish |-> "G", field |-> TRUE]))
    \cup Calls("leader_arrow",
               Thinned([start_point |-> <<0, 0>>, end_point |-> <<40, 30>>, text |-> "T"])
               \cup {[start_point |-> <<0, 0>>, end_point |-> e, text |-> "T"] :
                        e \in {<<0, 0>>, <<300, 0>>, <<-300, 10>>, <<0, 90>>}})

ViewCalls ==
    Calls("section_line",
          Thinned([start_point |-> <<0, 0>>, end_point |-> <<200, 0>>, section_label |-> "B"])
          \cup {[start_point |-> <<10, 20>>, end_point |-> e] :
                    e \in {<<10, 20>>, <<130, 180>>, <<10, -200>>}})
    \cup Calls("section_view_label", Thinned([position |-> <<10, 20>>, section_label |-> "B-B"]))
    \cup Calls("detail_view", Thinned([center |-> <<10, 20>>, radius |-> 50,
                                       detail_label |-> "C"])
          \cup {[center |-> <<10, 20>>, radius |-> r] : r \in {-50, 0}})
    \cup Calls("text", Thinned([text |-> "note", position |-> <<10, 20>>, layer |-> "PARTS"]))

KnownCalls(class) ==
    CASE class = "BasicShapeDrawer" -> BasicShapeCalls
      [] class = "DimensionDrawer"  -> DimensionCalls
      [] class = "SymbolDrawer"     -> SymbolCalls
      [] class = "ViewDrawer"       -> ViewCalls

\* kinds no strategy knows, and the empty kind
ForeignOps == {"", "triangle", "Circle"}

\* a complete call of every kind
CompleteCalls ==
    {[op |-> "circle", kw |-> [center |-> <<10, 20>>, radius |-> 50]],
     [op |-> "line", kw |-> LineKw],
     [op |-> "linear", kw |-> LinearKw],
     [op |-> "diameter", kw |-> [center |-> <<10, 20>>, radius |-> 50]],
     [op |-> "roughness", kw |-> [position |-> <<10, 20>>, roughness_value |-> "3.2"]],
     [op |-> "leader_arrow",
      kw |-> [start_point |-> <<0, 0>>, end_point |-> <<40, 30>>, text |-> "T"]],
     [op |-> "detail_view", kw |-> [center |-> <<10, 20>>, radius |-> 50]],
     [op |-> "text", kw |-> [text |-> "note", position |-> <<10, 20>>]]}

\* Calls whose kind is outside the strategy's set: complete calls of another
\* strategy's kinds, and unknown kinds with and without keywords.
ForeignCalls(class) ==
    {c \in CompleteCalls : c.op \notin StrategyOps(class)}
    \cup UNION {Calls(o, {EmptyKw, LineKw}) : o \in ForeignOps}

DrawCalls(class) == KnownCalls(class) \cup ForeignCalls(class)

-----------------------------------------------------------------------------
(* ComponentFactory.  The registry dict keeps its insertion order: it is a  *)
(* sequence of name/class entries with no name twice.  The instance cache  *)
(* is a function from cache keys, which are strings.  An object is a       *)
(* record with its address; a strategy instance carries the serial number  *)
(* of the construction that made it, its class and the canvas and config   *)
(* its constructor stored.                                                 *)

\* _auto_register_strategies, run when the module is imported
AutoRegistered ==
    <<[name |-> "basic_shapes", class |-> "BasicShapeDrawer"],
      [name |-> "dimensions", class |-> "DimensionDrawer"],
      [name |-> "symbols", class |-> "SymbolDrawer"],
      [name |-> "views", class |-> "ViewDrawer"]>>

\* The values callers pass as strategy_class, by name: the four strategies, a
\* subclass of DrawingStrategy a caller wrote ("CustomDrawer"), the abstract
\* base itself, a class outside the hierarchy ("dict"), and a value that is no
\* class at all (the string 'ViewDrawer').
IsClass(strategy_class) ==
    strategy_class \in StrategyClasses \cup {"CustomDrawer", "DrawingStrategy", "dict"}

\* issubclass(strategy_class, DrawingStrategy), for a class
IsStrategySubclass(strategy_class) ==
    strategy_class \in StrategyClasses \cup {"CustomDrawer", "DrawingStrategy"}

\* DrawingStrategy.draw is abstract: the base class cannot be instantiated
IsAbstract(strategy_class) == strategy_class = "DrawingStrategy"

\* name in cls._strategies
Registered(reg, name) == \E i \in 1..Len(reg) : reg[i].name = name

\* cls._strategies[name]
ClassOf(reg, name) == reg[CHOOSE i \in 1..Len(reg) : reg[i].name = name].class

\* list_strategies: list(cls._strategies.keys())
list_strategies(reg) == [i \in 1..Len(reg) |-> reg[i].name]

\* id(obj): the address of the object
id(obj) == obj.addr

\* a cache key that joins the three parts with nothing between them
cache_key_Unseparated(name, canvas_obj, config_obj) ==
    name \o ToString(id(canvas_obj)) \o ToString(id(config_obj))

\* cache_key = f"{name}_{id(canvas)}_{id(config)}"
cache_key(name, canvas_obj, config_obj) ==
    name \o "_" \o ToString(id(canvas_obj)) \o "_" \o ToString(id(config_obj))

\* strategy_class(canvas, config): DrawingStrategy.__init__ stores both
NewStrategy(serial, class, canvas_obj, config_obj) ==
    [kind |-> "strategy", serial |-> serial, class |-> class, canvas |-> canvas_obj,
     config |-> config_obj]

FactoryCall(call, name, canvas_obj, config_obj, class, raised, result) ==
    [call |-> call, name |-> name, canvas |-> canvas_obj, config |-> config_obj,
     class |-> class, raised |-> raised, result |-> result]

NoFactoryCall == FactoryCall("none", "", NoneVal, NoneVal, "", "", NoneVal)

\* The factory as the import leaves it.
FactoryFresh ==
    /\ _strategies = AutoRegistered
    /\ _instances = [k \in {} |-> 0]
    /\ issued = {}
    /\ retired = {}
    /\ facCall = NoFactoryCall
    /\ creates = 0

-----------------------------------------------------------------------------
(* DrawingTemplate: the phases of generate_drawing, and what the phases of  *)
(* ShaftTemplate and GearTemplate draw.  A phase body is the sequence of   *)
(* draw calls it makes on the template's strategies; a phase binds its     *)
(* parameters from the keywords of generate_drawing, which pass through    *)
(* every phase, and ignores the others.  x/2 is exact for the even         *)
(* numbers of tenths the callers give.                                     *)

PhaseOrder ==
    <<"_setup_document", "_create_title_block", "_setup_viewports", "_draw_main_view",
      "_draw_auxiliary_views", "_add_dimensions", "_add_annotations", "_finalize_drawing">>

PhaseIndex(phase) == CHOOSE i \in 1..Len(PhaseOrder) : PhaseOrder[i] = phase

\* generate_drawing with the main view left out
PhaseAfter_SkipMainView(phase) ==
    CASE phase = "_setup_viewports" -> "_draw_auxiliary_views"
      [] phase = "_finalize_drawing" -> "return"
      [] OTHER -> PhaseOrder[PhaseIndex(phase) + 1]

\* generate_drawing: the statement that follows each phase call
PhaseAfter(phase) ==
    CASE phase = "_setup_document"       -> "_create_title_block"
      [] phase = "_create_title_block"   -> "_setup_viewports"
      [] phase = "_setup_viewports"      -> "_draw_main_view"
      [] phase = "_draw_main_view"       -> "_draw_auxiliary_views"
      [] phase = "_draw_auxiliary_views" -> "_add_dimensions"
      [] phase = "_add_dimensions"       -> "_add_annotations"
      [] phase = "_add_annotations"      -> "_finalize_drawing"
      [] phase = "_finalize_drawing"     -> "return"

\* a phase that raised is followed by the next phase all the same
AfterPhase_Swallow(phase, raised) == PhaseAfter(phase)

\* generate_drawing has no try: an exception of a phase leaves it at once
AfterPhase(phase, raised) == IF raised # "" THEN "idle" ELSE PhaseAfter(phase)

\* self.<strategy>.draw(operation, **kw)
Call(strategy, operation, kw) == [strategy |-> strategy, op |-> operation, kw |-> kw]

ShaftTemplate_draw_main_view(args) ==
    LET a == [f \in {"origin", "diameter", "length"} |->
                 DictGet(args, f, [origin |-> <<0, 0>>, diameter |-> U(20),
                                   length |-> U(100)][f])]
        x == a.origin[1]
        y == a.origin[2]
    IN  <<Call("basic_shapes", "rectangle",
               [lower_left |-> <<x - a.length \div 2, y - a.diameter \div 2>>,
                width |-> a.length, height |-> a.diameter, layer |-> "PARTS"]),
          Call("basic_shapes", "centerline",
               [start |-> <<x - a.length \div 2 - U(10), y>>,
                end |-> <<x + a.length \div 2 + U(10), y>>])>>

ShaftTemplate_draw_auxiliary_views(args) ==
    LET a == [f \in {"origin", "diameter"} |->
                 DictGet(args, f, [origin |-> <<0, 0>>, diameter |-> U(20)][f])]
        x == a.origin[1]
        y == a.origin[2]
        view_x == x - U(80)
    IN  <<Call("basic_shapes", "circle",
               [center |-> <<view_x, y>>, radius |-> a.diameter \div 2, layer |-> "PARTS"]),
          Call("basic_shapes", "centerline",
               [start |-> <<view_x - a.diameter \div 2 - U(5), y>>,
                end |-> <<view_x + a.diameter \div 2 + U(5), y>>]),
          Call("basic_shapes", "centerline",
               [start |-> <<view_x, y - a.diameter \div 2 - U(5)>>,
                end |-> <<view_x, y + a.diameter \div 2 + U(5)>>])>>

ShaftTemplate_add_dimensions(args) ==
    LET a == [f \in {"origin", "diameter", "length"} |->
                 DictGet(args, f, [origin |-> <<0, 0>>, diameter |-> U(20),
                                   length |-> U(100)][f])]
        x == a.origin[1]
        y == a.origin[2]
    IN  <<Call("dimensions", "linear",
               [p1 |-> <<x - a.length \div 2, y - a.diameter \div 2>>,
                p2 |-> <<x + a.length \div 2, y - a.diameter \div 2>>,
                distance |-> U(15)]),
          Call("dimensions", "diameter",
               [center |-> <<x - U(80), y>>, radius |-> a.diameter \div 2, angle |-> 45])>>

GearTemplate_draw_main_view(args) ==
    LET a == [f \in {"origin", "outer_diameter", "inner_diameter"} |->
                 DictGet(args, f, [origin |-> <<0, 0>>, outer_diameter |-> U(60),
                                   inner_diameter |-> U(20)][f])]
        x == a.origin[1]
        y == a.origin[2]
    IN  <<Call("basic_shapes", "circle",
               [center |-> <<x, y>>, radius |-> a.outer_diameter \div 2, layer |-> "PARTS"]),
          Call("basic_shapes", "circle",
               [center |-> <<x, y>>, radius |-> a.inner_diameter \div 2, layer |-> "PARTS"]),
          Call("basic_shapes", "centerline",
               [start |-> <<x - a.outer_diameter \div 2 - U(10), y>>,
                end |-> <<x + a.outer_diameter \div 2 + U(10), y>>]),
          Call("basic_shapes", "centerline",
               [start |-> <<x, y - a.outer_diameter \div 2 - U(10)>>,
                end |-> <<x, y + a.outer_diameter \div 2 + U(10)>>])>>

GearTemplate_draw_auxiliary_views(args) ==
    LET a == [f \in {"origin", "thickness", "outer_diameter"} |->
                 DictGet(args, f, [origin |-> <<0, 0>>, thickness |-> U(15),
                                   outer_diameter |-> U(60)][f])]
        x == a.origin[1]
        y == a.origin[2]
        view_x == x + U(80)
    IN  <<Call("basic_shapes", "rectangle",
               [lower_left |-> <<view_x - a.thickness \div 2, y - a.outer_diameter \div 2>>,
                width |-> a.thickness, height |-> a.outer_diameter, layer |-> "PARTS"]),
          Call("basic_shapes", "centerline",
               [start |-> <<view_x, y - a.outer_diameter \div 2 - U(10)>>,
                end |-> <<view_x, y + a.outer_diameter \div 2 + U(10)>>])>>

GearTemplate_add_dimensions(args) ==
    LET a == [f \in {"origin", "outer_diameter", "inner_diameter"} |->
                 DictGet(args, f, [origin |-> <<0, 0>>, outer_diameter |-> U(60),
                                   inner_diameter |-> U(20)][f])]
        x == a.origin[1]
        y == a.origin[2]
    IN  <<Call("dimensions", "diameter",
               [center |-> <<x, y>>, radius |-> a.outer_diameter \div 2, angle |-> 45]),
          Call("dimensions", "diameter",
               [center |-> <<x, y>>, radius |-> a.inner_diameter \div 2, angle |-> 135])>>

TemplateClasses == {"ShaftTemplate", "GearTemplate"}

\* the body of a phase of a template class; the phases a class does not
\* override are the base class's, which do nothing
PhaseCalls(class, phase, args) ==
    CASE class = "ShaftTemplate" /\ phase = "_draw_main_view" ->
            ShaftTemplate_draw_main_view(args)
      [] class = "ShaftTemplate" /\ phase = "_draw_auxiliary_views" ->
            ShaftTemplate_draw_auxiliary_views(args)
      [] class = "ShaftTemplate" /\ phase = "_add_dimensions" ->
            ShaftTemplate_add_dimensions(args)
      [] class = "GearTemplate" /\ phase = "_draw_main_view" ->
            GearTemplate_draw_main_view(args)
      [] class = "GearTemplate" /\ phase = "_draw_auxiliary_views" ->
            GearTemplate_draw_auxiliary_views(args)
      [] class = "GearTemplate" /\ phase = "_add_dimensions" ->
            GearTemplate_add_dimensions(args)
      [] OTHER -> <<>>

\* The statements of a phase body in order: each draw call hands its
\* primitives to the canvas, and the first one that raises ends the body.
\* The template's strategies are the ones DrawingTemplate.__init__ got from
\* the factory under the names of the import-time registry.
RECURSIVE RunCalls(_, _)
RunCalls(cfg, calls) ==
    IF calls = <<>> THEN [raised |-> "", prims |-> <<>>]
    ELSE LET c == Head(calls)
             r == StrategyDraw(ClassOf(AutoRegistered, c.strategy), cfg, c.op, c.kw)
         IN  IF r.raised # "" THEN [raised |-> r.raised, prims |-> r.prims]
             ELSE LET rest == RunCalls(cfg, Tail(calls))
                  IN  [raised |-> rest.raised, prims |-> r.prims \o rest.prims]

NoResult == [kind |-> "none", exc |-> "", phase |-> ""]

\* No generate_drawing call has been made.
TemplateIdle ==
    /\ tplArgs = EmptyKw
    /\ tplPc = "idle"
    /\ tplTrace = <<>>
    /\ tplResult = NoResult
    /\ tplBefore = <<>>
    /\ runs = 0

\* A document as it is created: the text style Standard, and no line type or
\* layer of the configuration's names.  styles holds the names of the text
\* styles, linetypes and layers the attributes of each entry by name.
NewDocument == [styles |-> {"Standard"}, linetypes |-> EmptyKw, layers |-> EmptyKw]

\* No parts table has been written: an empty modelspace, and a document that no
\* canvas adapter has set up.
TableIdle ==
    /\ msp = <<>>
    /\ doc = NewDocument
    /\ tblLog = <<>>
    /\ tblCalls = <<>>

-----------------------------------------------------------------------------
(* A strategy object at work: strategy_class(canvas, config) has been      *)
(* constructed on a fresh canvas and a loaded configuration, and callers   *)
(* make draw calls on it.                                                  *)

MaxDraws == 2

NoCall == [called |-> FALSE, op |-> "", kw |-> EmptyKw, raised |-> "", before |-> <<>>,
           list |-> FALSE]

\* No draw call has been made on the canvas.
CanvasFresh ==
    /\ canvas = <<>>
    /\ lastCall = NoCall
    /\ draws = 0

\* config._config of the configuration object the strategies were given
LoadedConfig == ConfigOf(_config, _instance)

\* The configuration object is idle and holds snapshot `snap`.
ConfigLoaded(snap) ==
    /\ _instance = 1
    /\ _config = [o \in {1} |-> snap]
    /\ nextObj = 2
    /\ pc = [t \in Threads |-> "idle"]
    /\ local = [t \in Threads |-> NoLocal]
    /\ cfgCall = NoCfgCall
    /\ constructed = {1}

InitDraw ==
    /\ \E snap \in WholeSnapshots \ {NoneVal} : ConfigLoaded(snap)
    /\ self \in StrategyClasses
    /\ CanvasFresh
    /\ tplClass = "ShaftTemplate" /\ TemplateIdle
    /\ FactoryFresh
    /\ TableIdle

\* strategy.draw(operation, **kw): the primitives reach the canvas in order, and
\* the call returns or raises.
DrawOn(class, operation, kw) ==
    LET r == StrategyDraw(class, LoadedConfig, operation, kw) IN
    /\ canvas' = canvas \o r.prims
    /\ lastCall' = [called |-> TRUE, op |-> operation, kw |-> kw, raised |-> r.raised,
                    before |-> canvas, list |-> r.list]

Draw ==
    /\ draws < MaxDraws
    /\ \E c \in DrawCalls(self) : DrawOn(self, c.op, c.kw)
    /\ draws' = draws + 1
    /\ UNCHANGED <<cfgVars, self, tplVars, tblVars, facVars>>

NextDraw == Draw

SpecDraw == InitDraw /\ [][NextDraw]_vars

-----------------------------------------------------------------------------
(* What the specification says of a draw call, stated apart from the       *)
(* strategies' own validation.                                             *)

\* the parameters without default of each kind's handler
RequiredFields(operation) ==
    CASE operation = "circle" -> {"center", "radius"}
      [] operation = "rectangle" -> {"lower_left", "width", "height"}
      [] operation \in {"line", "centerline", "hiddenline", "phantomline", "borderline"} ->
            {"start", "end"}
      [] operation \in {"polyline", "spline", "hatch"} -> {"points"}
      [] operation = "arc" -> {"center", "radius", "start_angle", "end_angle"}
      [] operation = "ellipse" -> {"center", "major_axis", "ratio"}
      [] operation \in {"linear", "aligned"} -> {"p1", "p2", "distance"}
      [] operation \in {"radius", "diameter", "detail_view"} -> {"center", "radius"}
      [] operation = "angular" -> {"center", "p1", "p2"}
      [] operation = "baseline" -> {"base_point", "points"}
      [] operation = "tolerance" ->
            {"p1", "p2", "distance", "nominal", "upper_tol", "lower_tol"}
      [] operation = "roughness" -> {"position", "roughness_value"}
      [] operation = "advanced_surface_finish" -> {"position", "ra_value"}
      [] operation = "geometric_tolerance" -> {"position", "symbol", "tolerance"}
      [] operation = "welding_symbol" -> {"position", "weld_type"}
      [] operation = "leader_arrow" -> {"start_point", "end_point", "text"}
      [] operation = "section_line" -> {"start_point", "end_point"}
      [] operation = "section_view_label" -> {"position"}
      [] operation = "text" -> {"text", "position"}

\* the stated numeric constraints
BreaksConstraint(operation, kw) ==
    \/ /\ operation \in {"circle", "arc", "radius", "diameter", "detail_view"}
       /\ "radius" \in DOMAIN kw /\ kw.radius <= 0
    \/ /\ operation = "rectangle"
       /\ \/ "width" \in DOMAIN kw /\ kw.width <= 0
          \/ "height" \in DOMAIN kw /\ kw.height <= 0
    \/ /\ operation \in {"polyline", "spline"}
       /\ "points" \in DOMAIN kw /\ Len(kw.points) < 2
    \/ /\ operation = "hatch"
       /\ "points" \in DOMAIN kw /\ Len(kw.points) < 3
    \/ /\ operation = "baseline"
       /\ "points" \in DOMAIN kw /\ Len(kw.points) = 0

InvalidCall(class, operation, kw) ==
    /\ operation \in StrategyOps(class)
    /\ \/ ~(RequiredFields(operation) \subseteq DOMAIN kw)
       \/ BreaksConstraint(operation, kw)

\* the primitives the last draw call handed to the canvas
Emitted == SubSeq(canvas, Len(lastCall.before) + 1, Len(canvas))

\* C1: a draw call that misses a required field or breaks a stated numeric
\* constraint raises, and the canvas has received nothing from it: the canvas is
\* what it was before the call.
C1_InvalidDrawsNothing ==
    (lastCall.called /\ InvalidCall(self, lastCall.op, lastCall.kw))
        => (lastCall.raised # "" /\ canvas = lastCall.before)

\* a hatch with two boundary points, refused on a canvas that already holds primitives
C1_Witness ==
    /\ lastCall.called /\ lastCall.op = "hatch"
    /\ "points" \in DOMAIN lastCall.kw /\ Len(lastCall.kw.points) = 2
    /\ lastCall.raised = "ValueError"
    /\ Len(canvas) > 0 /\ canvas = lastCall.before

\* C2: a draw call whose kind is outside the strategy's set raises ValueError,
\* whatever its keywords, and the canvas is what it was before the call.
C2_UnknownKindRaises ==
    (lastCall.called /\ lastCall.op \notin StrategyOps(self))
        => (lastCall.raised = "ValueError" /\ canvas = lastCall.before)

\* a dimension kind given to the view strategy, with complete keywords, after
\* an earlier draw
C2_Witness ==
    /\ lastCall.called /\ self = "ViewDrawer" /\ lastCall.op = "linear"
    /\ lastCall.kw = LinearKw
    /\ lastCall.raised = "ValueError"
    /\ Len(canvas) > 0 /\ canvas = lastCall.before

\* the logical layer a kind draws a primitive on: the kind's fixed layer, or the
\* caller's layer keyword with the kind's default
LogicalLayerOf(operation, kw, prim) ==
    CASE operation \in {"circle", "rectangle", "polyline", "arc", "ellipse", "spline"} ->
            DictGet(kw, "layer", "PARTS")
      [] operation = "line" -> DictGet(kw, "layer", "VISIBLE")
      [] operation = "hatch" -> DictGet(kw, "layer", "HATCH")
      [] operation = "text" -> DictGet(kw, "layer", "TEXT")
      [] operation = "centerline" -> "CENTERLINE"
      [] operation = "hiddenline" -> "HIDDEN"
      [] operation = "phantomline" -> "PHANTOM"
      [] operation = "borderline" -> "BORDER"
      [] operation \in DimensionOps -> "DIMENSIONS"
      [] operation \in {"roughness", "leader_arrow"} ->
            IF prim.type = "text" THEN "TEXT" ELSE "DIMENSIONS"
      [] operation = "advanced_surface_finish" -> "SURFACE_FINISH"
      [] operation = "geometric_tolerance" -> "TOLERANCE"
      [] operation = "welding_symbol" -> "WELD_SYMBOL"
      [] operation = "section_line" -> "CUTTING_PLANE"
      [] operation = "section_view_label" -> "TEXT"
      [] operation = "detail_view" -> "DETAIL"

\* the physical name of a logical layer: its mapping entry, else its own name
PhysicalName(cfg, logical) ==
    IF "layer_mapping" \in DOMAIN cfg /\ logical \in DOMAIN cfg.layer_mapping
    THEN cfg.layer_mapping[logical]
    ELSE logical

\* C8: every layer a strategy passes to the canvas is the layer-mapping lookup
\* of the logical layer it draws on: the mapped physical name where the
\* snapshot maps the logical name, the logical name itself where it does not
\* or where the snapshot has no layer_mapping section.
C8_LayersThroughLookup ==
    lastCall.called =>
        \A i \in 1..Len(Emitted) :
            Emitted[i].layer = PhysicalName(LoadedConfig, LogicalLayerOf(lastCall.op, lastCall.kw,
                                                                     Emitted[i]))

\* under a snapshot that maps PARTS and not HATCH, a circle on the mapped layer
\* and then a hatch on the layer of its own logical name
C8_Witness ==
    /\ "layer_mapping" \in DOMAIN LoadedConfig /\ "PARTS" \in DOMAIN LoadedConfig.layer_mapping
    /\ "HATCH" \notin DOMAIN LoadedConfig.layer_mapping
    /\ Len(canvas) = 2
    /\ canvas[1].type = "circle" /\ canvas[1].layer = LoadedConfig.layer_mapping["PARTS"]
    /\ canvas[2].type = "hatch" /\ canvas[2].layer = "HATCH"
    /\ lastCall.raised = ""

-----------------------------------------------------------------------------
(* A template object at work: ShaftTemplate(msp, doc, config) or           *)
(* GearTemplate(msp, doc, config) has been constructed, which made the     *)
(* canvas adapter, whose constructor set up the document when there is     *)
(* one, and got the four strategies from the factory, and callers call     *)
(* generate_drawing.  The call is followed phase by phase.                 *)

MaxRuns == 2

\* the canvas adapter and the configuration object of the template
TplCanvas == [kind |-> "canvas", addr |-> 11]

TplConfig == [kind |-> "config", addr |-> 2]

\* EzdxfAdapter._setup_document on document d with snapshot cfg: the text
\* style chinese, a line type for each line type of the configuration and a
\* layer for each mapped name, where the document has none of the name.  The
\* mapped names of a snapshot are distinct.  The names the source looks for in
\* mapped_name are written in CJK characters; their transliterations stand for
\* them.
EzdxfAdapter_setup_document(d, cfg) ==
    LET line_types == get_all_line_types(cfg)
        layer_mappings == get_all_layer_mappings(cfg)
        mapped == {layer_mappings[l] : l \in DOMAIN layer_mappings}
        logical(name) == CHOOSE l \in DOMAIN layer_mappings : layer_mappings[l] = name
        attribs(line_config) ==
            LET description == DictGet(line_config, "description", "")
                pattern == DictGet(line_config, "pattern", <<>>)
            IN  IF pattern # <<>> THEN [description |-> description, pattern |-> pattern]
                ELSE [description |-> description]
        linetype(logical_layer, mapped_name) ==
            IF \/ Contains(mapped_name, "ZHONGXINXIAN")
               \/ logical_layer \in {"CENTERLINE", "AXIS"}
            THEN "CENTER"
            ELSE IF Contains(mapped_name, "XUXIAN") \/ logical_layer = "HIDDEN"
            THEN "HIDDEN"
            ELSE IF \/ Contains(mapped_name, "SHUANGDIANCHANGHUAXIAN")
                    \/ logical_layer = "PHANTOM"
            THEN "PHANTOM"
            ELSE IF Contains(mapped_name, "BIANJIEXIAN") \/ logical_layer = "BORDER"
            THEN "BORDER"
            ELSE "CONTINUOUS"
    IN  [styles |-> d.styles \cup {"chinese"},
         linetypes |-> [n \in DOMAIN d.linetypes \cup DOMAIN line_types |->
                            IF n \in DOMAIN d.linetypes THEN d.linetypes[n]
                            ELSE attribs(line_types[n])],
         layers |-> [n \in DOMAIN d.layers \cup mapped |->
                            IF n \in DOMAIN d.layers THEN d.layers[n]
                            ELSE [color |-> 7, linetype |-> linetype(logical(n), n)]]]

\* EzdxfAdapter.__init__(msp, doc, config): the document as it leaves it; a
\* template made with no document has None
EzdxfAdapter_init(d, cfg) ==
    IF d = NoneVal THEN d ELSE EzdxfAdapter_setup_document(d, cfg)

\* EzdxfAdapter.add_line .. add_aligned_dim: the entity the adapter's method
\* gives the modelspace for a primitive it is handed.  dxfattribs holds the
\* layer when the layer is not empty and, for a line, the line type when one
\* is passed; a keyword the method does not name (the angle of a linear
\* dimension) goes into dxfattribs as well.  A text gets the adapter's defaults
\* for the style and the alignments the caller left out, its position as
\* insert and align_point, and rotation 0.  A polyline is closed when closed is
\* asked for and it has more than two points; a hatch gets the pattern fill and
\* one closed path, its points followed by the first of them.
EzdxfAdapter_add(prim) ==
    LET layered == IF prim.layer # "" THEN [layer |-> prim.layer] ELSE EmptyKw
        dim(kind, geometry) ==
            geometry @@ [type |-> kind, text |-> prim.text, dimstyle |-> prim.dimstyle,
                         override |-> prim.override, dxfattribs |-> layered]
    IN  CASE prim.type = "line" ->
                [type |-> "LINE", start |-> prim.start, end |-> prim.end,
                 dxfattribs |-> (IF prim.linetype # "" THEN [linetype |-> prim.linetype]
                                 ELSE EmptyKw) @@ layered]
          [] prim.type = "circle" ->
                [type |-> "CIRCLE", center |-> prim.center, radius |-> prim.radius,
                 dxfattribs |-> layered]
          [] prim.type = "arc" ->
                [type |-> "ARC", center |-> prim.center, radius |-> prim.radius,
                 start_angle |-> prim.start_angle, end_angle |-> prim.end_angle,
                 dxfattribs |-> layered]
          [] prim.type = "ellipse" ->
                [type |-> "ELLIPSE", center |-> prim.center, major_axis |-> prim.major_axis,
                 ratio |-> prim.ratio, start_param |-> prim.start_param,
                 end_param |-> prim.end_param, dxfattribs |-> layered]
          [] prim.type = "polyline" ->
                [type |-> "POLYLINE", points |-> prim.points,
                 closed |-> prim.closed /\ Len(prim.points) > 2, dxfattribs |-> layered]
          [] prim.type = "spline" ->
                [type |-> "SPLINE", control_points |-> prim.points, degree |-> prim.degree,
                 dxfattribs |-> layered]
          [] prim.type = "hatch" ->
                [type |-> "HATCH", pattern |-> prim.pattern, scale |-> prim.scale,
                 paths |-> <<[points |-> Append(prim.points, prim.points[1]),
                              is_closed |-> TRUE]>>,
                 dxfattribs |-> layered]
          [] prim.type = "text" ->
                [type |-> "TEXT", text |-> prim.text,
                 dxfattribs |-> [height |-> prim.height, layer |-> prim.layer,
                                 style |-> IF prim.style = "" THEN "chinese" ELSE prim.style,
                                 insert |-> prim.position,
                                 halign |-> IF prim.halign = -1 THEN 1 ELSE prim.halign,
                                 valign |-> IF prim.valign = -1 THEN 1 ELSE prim.valign,
                                 align_point |-> prim.position, rotation |-> 0]]
          [] prim.type = "linear_dim" ->
                [type |-> "LINEAR_DIM", base |-> prim.base, p1 |-> prim.p1, p2 |-> prim.p2,
                 text |-> prim.text, dimstyle |-> prim.dimstyle, override |-> prim.override,
                 dxfattribs |-> (IF prim.angle # <<>> THEN [angle |-> prim.angle[1]]
                                 ELSE EmptyKw) @@ layered]
          [] prim.type = "radius_dim" ->
                dim("RADIUS_DIM", [center |-> prim.center, radius |-> prim.radius,
                                   angle |-> prim.angle])
          [] prim.type = "diameter_dim" ->
                dim("DIAMETER_DIM", [center |-> prim.center, radius |-> prim.radius,
                                     angle |-> prim.angle])
          [] prim.type = "angular_dim" ->
                dim("ANGULAR_DIM", [center |-> prim.center, p1 |-> prim.p1, p2 |-> prim.p2])
          [] prim.type = "aligned_dim" ->
                dim("ALIGNED_DIM", [p1 |-> prim.p1, p2 |-> prim.p2,
                                    distance |-> prim.distance])

\* the entities of a run of primitives, in order
Entities(prims) == [i \in 1..Len(prims) |-> EzdxfAdapter_add(prims[i])]

\* DrawingTemplate.__init__: the four create_strategy calls on an empty cache
TemplateConstructed ==
    LET made == [i \in 1..Len(AutoRegistered) |->
                    [name |-> AutoRegistered[i].name, canvas |-> TplCanvas,
                     config |-> TplConfig,
                     result |-> NewStrategy(i, AutoRegistered[i].class, TplCanvas, TplConfig)]]
    IN  /\ _strategies = AutoRegistered
        /\ _instances = [k \in {cache_key(made[i].name, TplCanvas, TplConfig) :
                                    i \in 1..Len(made)} |->
                            made[CHOOSE i \in 1..Len(made) :
                                    cache_key(made[i].name, TplCanvas, TplConfig) = k].result]
        /\ issued = {made[i] : i \in 1..Len(made)}
        /\ retired = {}
        /\ facCall = FactoryCall("create_strategy", made[Len(made)].name, TplCanvas,
                                  TplConfig, "", "", made[Len(made)].result)
        /\ creates = Len(made)

\* an optional keyword: <<>> when the caller leaves it out, <<v>> when given
Opt(f, o) == IF o = <<>> THEN EmptyKw ELSE (f :> o[1])

\* The keywords callers give generate_drawing, per template class: sizes that
\* are positive, zero or negative, or left to the defaults.
TemplateArgs(class) ==
    IF class = "ShaftTemplate"
    THEN {Opt("origin", o) @@ Opt("diameter", d) @@ Opt("length", l) :
            o \in {<<>>, <<(<<100, 50>>)>>}, d \in {<<>>, <<0>>, <<300>>},
            l \in {<<>>, <<-500>>}}
    ELSE {Opt("origin", o) @@ Opt("outer_diameter", d) @@ Opt("inner_diameter", n)
            @@ Opt("thickness", t) :
            o \in {<<>>, <<(<<100, 50>>)>>}, d \in {<<>>, <<0>>, <<400>>},
            n \in {<<>>, <<0>>}, t \in {<<>>, <<-100>>}}

InitTemplate ==
    /\ \E snap \in WholeSnapshots \ {NoneVal} : ConfigLoaded(snap)
    /\ self = "BasicShapeDrawer"
    /\ CanvasFresh
    /\ tplClass \in TemplateClasses
    /\ TemplateIdle
    /\ TemplateConstructed
    /\ msp = <<>>
    /\ \E d \in {NewDocument, NoneVal} : doc = EzdxfAdapter_init(d, LoadedConfig)
    /\ tblLog = <<>>
    /\ tblCalls = <<>>

\* template.generate_drawing(**args) is entered
Generate(args) ==
    /\ tplPc = "idle"
    /\ runs < MaxRuns
    /\ runs' = runs + 1
    /\ tplArgs' = args
    /\ tplPc' = "_setup_document"
    /\ tplTrace' = <<>>
    /\ tplResult' = NoResult
    /\ tplBefore' = canvas
    /\ UNCHANGED <<cfgVars, drawVars, tplClass, facVars, tblVars>>

GenerateDrawing == \E args \in TemplateArgs(tplClass) : Generate(args)

\* the phase call at which generate_drawing stands runs: its draw calls reach
\* the canvas, the EzdxfAdapter of the template, which adds an entity to the
\* modelspace for each primitive, and it returns or raises
RunPhase ==
    /\ tplPc \notin {"idle", "return"}
    /\ LET r == RunCalls(LoadedConfig, PhaseCalls(tplClass, tplPc, tplArgs)) IN
        /\ canvas' = canvas \o r.prims
        /\ msp' = msp \o Entities(r.prims)
        /\ tplPc' = AfterPhase(tplPc, r.raised)
        /\ tplResult' = IF r.raised # ""
                        THEN [kind |-> "raised", exc |-> r.raised, phase |-> tplPc]
                        ELSE tplResult
    /\ tplTrace' = Append(tplTrace, tplPc)
    /\ UNCHANGED <<cfgVars, lastCall, draws, self, tplClass, tplArgs, tplBefore, runs, facVars,
                   doc, tblLog, tblCalls>>

\* return self.doc: the document, which is None for a template made without one
ReturnDoc ==
    /\ tplPc = "return"
    /\ tplPc' = "idle"
    /\ tplResult' = [kind |-> "doc", exc |-> "", phase |-> ""]
    /\ UNCHANGED <<cfgVars, drawVars, tplClass, tplArgs, tplTrace, tplBefore, runs, facVars, tblVars>>

NextTemplate == GenerateDrawing \/ RunPhase \/ ReturnDoc

SpecTemplate == InitTemplate /\ [][NextTemplate]_vars

IsPrefix(s, t) == Len(s) <= Len(t) /\ s = SubSeq(t, 1, Len(s))

\* C3: generate_drawing runs the eight phases once each in the fixed order:
\* what has run is always an initial part of the order, the call stands at a
\* phase only when exactly the phases before it have run, and the document is
\* returned only when all eight have run, Finalize last.
C3_PhasesInOrder ==
    /\ IsPrefix(tplTrace, PhaseOrder)
    /\ \A i \in 1..Len(PhaseOrder) :
            tplPc = PhaseOrder[i] => tplTrace = SubSeq(PhaseOrder, 1, i - 1)
    /\ tplPc = "return" => tplTrace = PhaseOrder
    /\ tplResult.kind = "doc" => tplTrace = PhaseOrder

\* a second generate_drawing call has returned the document after all eight
\* phases, and has drawn: the modelspace holds more entities than when the
\* call began
C3_Witness ==
    /\ runs = 2 /\ tplPc = "idle" /\ tplResult.kind = "doc"
    /\ tplTrace = PhaseOrder
    /\ Len(tplBefore) > 0 /\ Len(canvas) > Len(tplBefore)
    /\ Len(msp) > Len(tplBefore)

RECURSIVE ConcatAll(_)
ConcatAll(seqs) == IF seqs = <<>> THEN <<>> ELSE Head(seqs) \o ConcatAll(Tail(seqs))

\* every draw call of a generate_drawing call that meets no failure, in order
AllCalls(class, args) ==
    ConcatAll([i \in 1..Len(PhaseOrder) |-> PhaseCalls(class, PhaseOrder[i], args)])

\* what the strategies answer to each of these calls
Answers(class, cfg, args) ==
    LET calls == AllCalls(class, args) IN
    [i \in 1..Len(calls) |->
        StrategyDraw(ClassOf(AutoRegistered, calls[i].strategy), cfg, calls[i].op,
                     calls[i].kw)]

\* the first draw call that raises
FirstFailure(class, cfg, args) ==
    LET ans == Answers(class, cfg, args) IN
    CHOOSE i \in 1..Len(ans) :
        ans[i].raised # "" /\ \A j \in 1..(i - 1) : ans[j].raised = ""

\* the primitives of the draw calls before it
EmittedBeforeFailure(class, cfg, args) ==
    LET ans == Answers(class, cfg, args)
        k == FirstFailure(class, cfg, args)
    IN  ConcatAll([j \in 1..(k - 1) |-> ans[j].prims])

\* C4: when a phase raises, generate_drawing ends there: the failing phase is
\* the last that ran, the caller gets the draw call's own exception and no
\* document, and nothing is rolled back: the canvas has received what it had
\* before the call followed by the primitives of every draw call made before
\* the failing one, and the modelspace of the drawing holds the entity of each
\* of them, in that order and no other.
C4_FailureAborts ==
    tplResult.kind = "raised" =>
        /\ tplPc = "idle"
        /\ IsPrefix(tplTrace, PhaseOrder)
        /\ tplTrace # <<>> /\ tplTrace[Len(tplTrace)] = tplResult.phase
        /\ tplResult.exc = Answers(tplClass, LoadedConfig, tplArgs)[
                                FirstFailure(tplClass, LoadedConfig, tplArgs)].raised
        /\ canvas = tplBefore \o EmittedBeforeFailure(tplClass, LoadedConfig, tplArgs)
        /\ msp = Entities(tplBefore)
                    \o Entities(EmittedBeforeFailure(tplClass, LoadedConfig, tplArgs))

\* a gear whose thickness is negative: the auxiliary views fail after the four
\* primitives of the main view, in a drawing that an earlier call has drawn
\* on; its modelspace keeps the two circles and the two centre lines
C4_Witness ==
    /\ tplClass = "GearTemplate" /\ tplResult.kind = "raised"
    /\ tplResult.phase = "_draw_auxiliary_views" /\ tplResult.exc = "ValueError"
    /\ Len(tplBefore) > 0 /\ Len(canvas) = Len(tplBefore) + 4
    /\ Len(msp) = Len(tplBefore) + 4
    /\ [i \in 1..4 |-> msp[Len(tplBefore) + i].type] = <<"CIRCLE", "CIRCLE", "LINE", "LINE">>
    /\ msp[Len(msp)].dxfattribs.linetype = "CENTER"
    /\ tplTrace = SubSeq(PhaseOrder, 1, 5)

-----------------------------------------------------------------------------
(* The factory at work: callers register classes, create strategies for    *)
(* canvas and config objects, list the names and clear the cache.          *)

MaxCreates == 3

\* the canvas and config objects callers hold, by address
CanvasObjs == {[kind |-> "canvas", addr |-> 1], [kind |-> "canvas", addr |-> 11]}

ConfigObjs == {[kind |-> "config", addr |-> 2], [kind |-> "config", addr |-> 12]}

\* "gears" is not registered at import
FactoryNames == {"basic_shapes", "views", "gears"}

\* a new subclass under a new name, another strategy under a name in use, the
\* abstract base, a class that does not inherit from it, and a string
RegisterArgs ==
    {<<"gears", "CustomDrawer">>, <<"views", "SymbolDrawer">>, <<"gears", "DrawingStrategy">>,
     <<"gears", "dict">>, <<"gears", "'ViewDrawer'">>}

InitFactory ==
    /\ ConfigLoaded(SnapA)
    /\ self = "BasicShapeDrawer"
    /\ CanvasFresh
    /\ tplClass = "ShaftTemplate" /\ TemplateIdle
    /\ FactoryFresh
    /\ TableIdle

\* ComponentFactory.register_strategy(name, strategy_class)
register_strategy(name, strategy_class) ==
    /\ IF ~IsClass(strategy_class)
       THEN /\ facCall' = FactoryCall("register_strategy", name, NoneVal, NoneVal,
                                      strategy_class, "TypeError", NoneVal)
            /\ UNCHANGED _strategies
       ELSE IF ~IsStrategySubclass(strategy_class)
       THEN /\ facCall' = FactoryCall("register_strategy", name, NoneVal, NoneVal,
                                      strategy_class, "ValueError", NoneVal)
            /\ UNCHANGED _strategies
       ELSE /\ facCall' = FactoryCall("register_strategy", name, NoneVal, NoneVal,
                                      strategy_class, "", NoneVal)
            /\ _strategies' =
                    IF Registered(_strategies, name)
                    THEN [i \in 1..Len(_strategies) |->
                            IF _strategies[i].name = name
                            THEN [name |-> name, class |-> strategy_class]
                            ELSE _strategies[i]]
                    ELSE Append(_strategies, [name |-> name, class |-> strategy_class])
    /\ UNCHANGED <<cfgVars, drawVars, tplVars, tblVars, _instances, issued, retired, creates>>

\* ComponentFactory.create_strategy(name, canvas, config)
create_strategy(name, canvas_obj, config_obj) ==
    /\ creates < MaxCreates
    /\ creates' = creates + 1
    /\ IF ~Registered(_strategies, name)
       THEN /\ facCall' = FactoryCall("create_strategy", name, canvas_obj, config_obj, "",
                                      "ValueError", NoneVal)
            /\ UNCHANGED <<_instances, issued>>
       ELSE IF /\ cache_key(name, canvas_obj, config_obj) \notin DOMAIN _instances
               /\ IsAbstract(ClassOf(_strategies, name))
       THEN /\ facCall' = FactoryCall("create_strategy", name, canvas_obj, config_obj, "",
                                      "TypeError", NoneVal)
            /\ UNCHANGED <<_instances, issued>>
       ELSE LET key == cache_key(name, canvas_obj, config_obj)
                instance == IF key \in DOMAIN _instances
                            THEN _instances[key]
                            ELSE NewStrategy(creates + 1, ClassOf(_strategies, name),
                                             canvas_obj, config_obj)
            IN  /\ _instances' = IF key \in DOMAIN _instances THEN _instances
                                 ELSE (key :> instance) @@ _instances
                /\ issued' = issued \cup {[name |-> name, canvas |-> canvas_obj,
                                           config |-> config_obj, result |-> instance]}
                /\ facCall' = FactoryCall("create_strategy", name, canvas_obj, config_obj,
                                          "", "", instance)
    /\ UNCHANGED <<cfgVars, drawVars, tplVars, tblVars, _strategies, retired>>

\* ComponentFactory.list_strategies()
ListStrategies ==
    /\ facCall' = FactoryCall("list_strategies", "", NoneVal, NoneVal, "", "",
                              list_strategies(_strategies))
    /\ UNCHANGED <<cfgVars, drawVars, tplVars, tblVars, _strategies, _instances, issued,
                   retired, creates>>

\* a clear_cache that forgets the calls and keeps the instances
clear_cache_KeepsInstances ==
    /\ issued' = {}
    /\ retired' = retired \cup {a.result.serial : a \in issued}
    /\ facCall' = FactoryCall("clear_cache", "", NoneVal, NoneVal, "", "", NoneVal)
    /\ UNCHANGED <<cfgVars, drawVars, tplVars, tblVars, _strategies, _instances, creates>>

\* ComponentFactory.clear_cache()
clear_cache ==
    /\ _instances' = [k \in {} |-> 0]
    /\ issued' = {}
    /\ retired' = retired \cup {a.result.serial : a \in issued}
    /\ facCall' = FactoryCall("clear_cache", "", NoneVal, NoneVal, "", "", NoneVal)
    /\ UNCHANGED <<cfgVars, drawVars, tplVars, tblVars, _strategies, creates>>

RegisterStrategy == \E a \in RegisterArgs : register_strategy(a[1], a[2])

\* the canvas and config a caller passes together: every pair but the one of
\* the second canvas with the second config
CreatePairs == {p \in CanvasObjs \X ConfigObjs : p[1].addr = 1 \/ p[2].addr = 2}

CreateStrategy ==
    \E name \in FactoryNames, p \in CreatePairs : create_strategy(name, p[1], p[2])

NextFactory == RegisterStrategy \/ CreateStrategy \/ ListStrategies \/ clear_cache

SpecFactory == InitFactory /\ [][NextFactory]_vars

\* C5: among the create_strategy calls that returned since the cache was last
\* cleared, two calls got the same instance exactly when they gave the same
\* name, the same canvas object and the same config object, and every instance
\* returned holds the canvas and the config of the call that returned it.
C5_OneInstancePerTriple ==
    /\ \A a, b \in issued :
            (a.name = b.name /\ a.canvas = b.canvas /\ a.config = b.config)
                <=> (a.result.serial = b.result.serial)
    /\ \A a \in issued : a.result.canvas = a.canvas /\ a.result.config = a.config

\* the third call repeats the first call's triple and gets its instance, after
\* a call with the same name on another canvas got a different one
C5_Witness ==
    /\ creates = 3 /\ facCall.call = "create_strategy" /\ facCall.raised = ""
    /\ facCall.result.serial = 1
    /\ \E b \in issued :
            /\ b.name = facCall.name /\ b.config = facCall.config
            /\ b.canvas # facCall.canvas /\ b.result.serial = 2

-----------------------------------------------------------------------------
(* The configuration at work in a process: two threads construct           *)
(* GBStandardConfig, query the objects the constructions returned and      *)
(* reload them.  Nothing in the class takes a lock, so a step of one       *)
(* thread can fall between any two lines of the other's call: between the  *)
(* test and the assignment of __new__, between the test of __init__ and    *)
(* its assignment, where the file is read, and between the load and the    *)
(* assignment of reload_config.  A getter reads self._config once.         *)

\* keys the call sites ask for
QueryKeys(getter) ==
    CASE getter = "get_line_type"     -> {"CENTER", "HIDDEN"}
      [] getter = "get_layer_mapping" -> {"PARTS", "TOLERANCE"}
      [] getter = "get_text_height"   -> {"title"}
      [] OTHER                        -> {""}

\* thread t is back outside any call
Returned(t) ==
    /\ pc' = [pc EXCEPT ![t] = "idle"]
    /\ local' = [local EXCEPT ![t] = NoLocal]

InitConfig ==
    /\ _instance = 0
    /\ _config = << >>
    /\ nextObj = 1
    /\ pc = [t \in Threads |-> "idle"]
    /\ local = [t \in Threads |-> NoLocal]
    /\ cfgCall = NoCfgCall
    /\ constructed = {}
    /\ self = "BasicShapeDrawer"
    /\ CanvasFresh
    /\ tplClass = "ShaftTemplate" /\ TemplateIdle
    /\ FactoryFresh
    /\ TableIdle

\* GBStandardConfig(config_file) begins: the test of __new__
NewTest(t) ==
    /\ pc[t] = "idle"
    /\ pc' = [pc EXCEPT ![t] = IF _instance = 0 THEN "new14" ELSE "new15"]
    /\ UNCHANGED <<_instance, _config, nextObj, local, cfgCall, constructed,
                   drawVars, tplVars, tblVars, facVars>>

\* cls._instance = super().__new__(cls)
NewAssign(t) ==
    /\ pc[t] = "new14"
    /\ _instance' = nextObj
    /\ nextObj' = nextObj + 1
    /\ pc' = [pc EXCEPT ![t] = "new15"]
    /\ UNCHANGED <<_config, local, cfgCall, constructed, drawVars, tplVars, tblVars,
                   facVars>>

\* return cls._instance: the object __init__ is then called on
NewReturn(t) ==
    /\ pc[t] = "new15"
    /\ local' = [local EXCEPT ![t].obj = _instance]
    /\ pc' = [pc EXCEPT ![t] = "init18"]
    /\ UNCHANGED <<_instance, _config, nextObj, cfgCall, constructed, drawVars,
                   tplVars, tblVars, facVars>>

\* __init__: the test of self._config finds a snapshot, and the construction
\* returns the object without reading config_file
InitSkip(t, config_file) ==
    LET obj == local[t].obj IN
    /\ pc[t] = "init18"
    /\ ConfigOf(_config, obj) # NoneVal
    /\ constructed' = constructed \cup {obj}
    /\ cfgCall' = CfgCall("construct", obj, config_file, "", "", obj)
    /\ Returned(t)
    /\ UNCHANGED <<_instance, _config, nextObj, drawVars, tplVars, tblVars, facVars>>

\* __init__: the test of self._config finds None, and the thread goes on to
\* read the file
InitTest(t) ==
    /\ pc[t] = "init18"
    /\ ConfigOf(_config, local[t].obj) = NoneVal
    /\ pc' = [pc EXCEPT ![t] = "init19"]
    /\ UNCHANGED <<_instance, _config, nextObj, local, cfgCall, constructed, drawVars,
                   tplVars, tblVars, facVars>>

\* __init__: _load_config has read the file, which takes time in which the
\* other thread runs; a load that fails leaves the construction with the
\* exception.  No line before these reads config_file, so the value the
\* caller gave is drawn here.
InitLoad(t, config_file) ==
    LET obj == local[t].obj
        r == _load_config(ResolveFile(config_file))
    IN  /\ pc[t] = "init19"
        /\ IF r.raised # ""
           THEN /\ cfgCall' = CfgCall("construct", obj, config_file, "", r.raised,
                                      NoneVal)
                /\ Returned(t)
           ELSE /\ pc' = [pc EXCEPT ![t] = "init24"]
                /\ local' = [local EXCEPT ![t].value = r.value]
                /\ UNCHANGED cfgCall
        /\ UNCHANGED <<_instance, _config, nextObj, constructed, drawVars, tplVars,
                       tblVars, facVars>>

\* self._config = <the loaded dict>, and the construction returns the object
InitAssign(t) ==
    LET obj == local[t].obj IN
    /\ pc[t] = "init24"
    /\ _config' = Assigned(_config, obj,
                           Installed(ConfigOf(_config, obj), local[t].value))
    /\ constructed' = constructed \cup {obj}
    /\ cfgCall' = CfgCall("construct", obj, "", "", "", obj)
    /\ Returned(t)
    /\ UNCHANGED <<_instance, nextObj, drawVars, tplVars, tblVars, facVars>>

\* a reload that drops the installed snapshot before it loads, so that a failed
\* load leaves the object without one
ReloadLoad_DropsFirst(t, obj, config_file) ==
    LET r == _load_config(ResolveFile(config_file)) IN
    /\ pc[t] = "idle"
    /\ obj \in constructed
    /\ IF r.raised # ""
       THEN /\ cfgCall' = CfgCall("reload_config", obj, config_file, "", r.raised, NoneVal)
            /\ _config' = Assigned(_config, obj, NoneVal)
            /\ UNCHANGED <<pc, local>>
       ELSE /\ pc' = [pc EXCEPT ![t] = "reload79"]
            /\ local' = [local EXCEPT ![t] = [obj |-> obj, value |-> r.value]]
            /\ UNCHANGED <<cfgCall, _config>>
    /\ UNCHANGED <<_instance, nextObj, constructed, drawVars, tplVars, tblVars,
                   facVars>>

\* obj.reload_config(config_file) up to the return of _load_config: a failure
\* leaves the call with the exception
ReloadLoad(t, obj, config_file) ==
    LET r == _load_config(ResolveFile(config_file)) IN
    /\ pc[t] = "idle"
    /\ obj \in constructed
    /\ IF r.raised # ""
       THEN /\ cfgCall' = CfgCall("reload_config", obj, config_file, "", r.raised, NoneVal)
            /\ UNCHANGED <<pc, local>>
       ELSE /\ pc' = [pc EXCEPT ![t] = "reload79"]
            /\ local' = [local EXCEPT ![t] = [obj |-> obj, value |-> r.value]]
            /\ UNCHANGED cfgCall
    /\ UNCHANGED <<_instance, _config, nextObj, constructed, drawVars, tplVars,
                   tblVars, facVars>>

\* the assignment to self._config, and the return
ReloadInstall(t) ==
    LET obj == local[t].obj IN
    /\ pc[t] = "reload79"
    /\ _config' = Assigned(_config, obj,
                           Installed(ConfigOf(_config, obj), local[t].value))
    /\ cfgCall' = CfgCall("reload_config", obj, "", "", "", NoneVal)
    /\ Returned(t)
    /\ UNCHANGED <<_instance, nextObj, constructed, drawVars, tplVars, tblVars, facVars>>

\* a getter call on obj by a thread that is in no other call
Query(t, obj, getter, key) ==
    LET r == ConfigQuery(ConfigOf(_config, obj), getter, key) IN
    /\ pc[t] = "idle"
    /\ obj \in constructed
    /\ cfgCall' = CfgCall(getter, obj, "", key, r.raised, r.value)
    /\ UNCHANGED <<_instance, _config, nextObj, pc, local, constructed, drawVars,
                   tplVars, tblVars, facVars>>

NewTests == \E t \in Threads : NewTest(t)

NewAssigns == \E t \in Threads : NewAssign(t)

NewReturns == \E t \in Threads : NewReturn(t)

InitSkips == \E t \in Threads, f \in FileArgs : InitSkip(t, f)

InitTests == \E t \in Threads : InitTest(t)

InitLoads == \E t \in Threads, f \in FileArgs : InitLoad(t, f)

InitAssigns == \E t \in Threads : InitAssign(t)

ReloadLoads == \E t \in Threads, obj \in constructed, f \in FileArgs : ReloadLoad(t, obj, f)

ReloadInstalls == \E t \in Threads : ReloadInstall(t)

Queries ==
    \E t \in Threads, obj \in constructed, getter \in Getters :
        \E key \in QueryKeys(getter) : Query(t, obj, getter, key)

NextConfig ==
    \/ NewTests \/ NewAssigns \/ NewReturns \/ InitSkips \/ InitTests \/ InitLoads
    \/ InitAssigns
    \/ ReloadLoads \/ ReloadInstalls \/ Queries

SpecConfig == InitConfig /\ [][NextConfig]_vars

\* C6: every construction that returns, returns one and the same object; and
\* a construction that ends on an object with a snapshot loaded, whatever its
\* config_file, leaves the snapshot as it is and loads nothing.
C6_OneObjectOneSnapshot ==
    /\ [](Cardinality(constructed) <= 1)
    /\ [][(cfgCall'.call = "construct" /\ ConfigOf(_config, cfgCall'.obj) # NoneVal)
            => _config' = _config]_vars

\* a query on an object is answered from the snapshot the object holds
AnsweredFromInstalled ==
    LET r == ConfigQuery(ConfigOf(_config, cfgCall'.obj), cfgCall'.call, cfgCall'.key) IN
    /\ cfgCall'.raised = r.raised
    /\ cfgCall'.result = r.value
    /\ _config' = _config

\* C7: the snapshot an object holds is at every moment, whole, what one load
\* returned, never a mixture of two; it changes only by one thread's
\* assignment of the dict it loaded; and a query's answer is the getter's
\* answer on the snapshot installed when the query is made, whether reloads
\* are in flight or not.
C7_AtomicSwap ==
    /\ [](\A obj \in DOMAIN _config : _config[obj] \in WholeSnapshots)
    /\ [][_config' # _config =>
            \E t \in Threads :
                /\ pc[t] \in {"init24", "reload79"}
                /\ _config' = Assigned(_config, local[t].obj, local[t].value)]_vars
    /\ [][(cfgCall' # cfgCall /\ cfgCall'.call \in Getters) => AnsweredFromInstalled]_vars

\* while a reload of the object has loaded c.json and not yet assigned it, and
\* the object holds the snapshot of b.json, a query is answered from b.json's
\* snapshot and not from the pending one
C7_Witness ==
    /\ pc["A"] = "reload79" /\ local["A"] = [obj |-> 1, value |-> SnapC]
    /\ _config = <<SnapB>>
    /\ cfgCall.call = "get_layer_mapping" /\ cfgCall.key = "PARTS" /\ cfgCall.obj = 1
    /\ cfgCall.raised = ""
    /\ cfgCall.result = "B_parts"
    /\ cfgCall.result # ConfigQuery(SnapC, "get_layer_mapping", "PARTS").value

-----
(* Leader arrows: a symbol strategy draws leaders between points on a grid *)
(* of half drawing units, which holds horizontal, near-horizontal, steep   *)
(* and vertical leaders in both directions, and the leader of length 0.    *)

MaxLeaders == 1

LeaderStarts == {<<0, 0>>, <<100, 50>>}

LeaderOffsets ==
    {<<dx, dy>> : dx \in {-250, -200, -150, -100, -50, -5, 0, 5, 50, 100, 150, 200, 250},
                  dy \in {-100, -10, -5, 0, 5, 10, 100}}

LeaderCalls ==
    {[start_point |-> s, end_point |-> <<s[1] + d[1], s[2] + d[2]>>, text |-> "T"] :
        s \in LeaderStarts, d \in LeaderOffsets}

InitLeader ==
    /\ \E snap \in WholeSnapshots \ {NoneVal} : ConfigLoaded(snap)
    /\ self = "SymbolDrawer"
    /\ CanvasFresh
    /\ tplClass = "ShaftTemplate" /\ TemplateIdle
    /\ FactoryFresh
    /\ TableIdle

\* symbols.draw('leader_arrow', start_point=, end_point=, text=)
DrawLeader ==
    /\ draws < MaxLeaders
    /\ \E kw \in LeaderCalls : DrawOn(self, "leader_arrow", kw)
    /\ draws' = draws + 1
    /\ UNCHANGED <<cfgVars, self, tplVars, tblVars, facVars>>

NextLeader == DrawLeader

SpecLeader == InitLeader /\ [][NextLeader]_vars

\* the last draw call drew a leader
LeaderDrawn == lastCall.called /\ lastCall.op = "leader_arrow" /\ lastCall.raised = ""

\* point p lies on the closed segment from a to b
OnSegment(p, a, b) ==
    /\ (b[1] - a[1]) * (p[2] - a[2]) = (b[2] - a[2]) * (p[1] - a[1])
    /\ Min(a[1], b[1]) <= p[1] /\ p[1] <= a[1] + b[1] - Min(a[1], b[1])
    /\ Min(a[2], b[2]) <= p[2] /\ p[2] <= a[2] + b[2] - Min(a[2], b[2])

\* C9: for a leader with start # end, the text point is not on the leader
\* segment drawn from end to anchor, and a leader that is not horizontal gets a
\* horizontal segment of non-zero length that starts at the anchor.
C9_TextClearOfLeader ==
    (LeaderDrawn /\ lastCall.kw.start_point # lastCall.kw.end_point) =>
        LET leader == Emitted[1]
            landing == Emitted[2]
            label == Emitted[3]
        IN  /\ leader.start = lastCall.kw.end_point
            /\ ~OnSegment(label.position, leader.start, leader.end)
            /\ lastCall.kw.start_point[2] # lastCall.kw.end_point[2] =>
                    /\ landing.start = leader.end
                    /\ landing.end[2] = landing.start[2]
                    /\ landing.end[1] # landing.start[1]

\* C10 as stated: a leader with start = end raises nothing and holds no line
\* segment of non-zero length.
C10_NoSegmentAtAll ==
    (lastCall.called /\ lastCall.op = "leader_arrow"
        /\ lastCall.kw.start_point = lastCall.kw.end_point) =>
        /\ lastCall.raised = ""
        /\ \A i \in 1..Len(Emitted) :
                Emitted[i].type = "line" => Emitted[i].start = Emitted[i].end

\* C10: a leader with start = end raises nothing; its leader segment has
\* length 0, and the routing goes on as for a horizontal leader: one stub of 1
\* unit from the point to its left, and the text 5 units further left.
C10_DegenerateLeader ==
    (lastCall.called /\ lastCall.op = "leader_arrow"
        /\ lastCall.kw.start_point = lastCall.kw.end_point) =>
        LET p == lastCall.kw.start_point IN
        /\ lastCall.raised = ""
        /\ Len(Emitted) = 3
        /\ Emitted[1].type = "line" /\ Emitted[1].start = p /\ Emitted[1].end = p
        /\ Emitted[2].type = "line" /\ Emitted[2].start = p
        /\ Emitted[2].end = <<p[1] - U(1), p[2]>>
        /\ Emitted[3].type = "text" /\ Emitted[3].position = <<p[1] - U(6), p[2]>>

\* a leader from (10, 5) to (10, 5) has been drawn
C10_Witness ==
    /\ LeaderDrawn
    /\ lastCall.kw.start_point = <<100, 50>> /\ lastCall.kw.end_point = <<100, 50>>
    /\ Len(canvas) = 3

-----------------------------------------------------------------------------
(* The routing of a leader, read off the three primitives of a call.       *)

\* the sign of a number
Sign(x) == IF x > 0 THEN 1 ELSE IF x < 0 THEN -1 ELSE 0

\* |dy| / dist < 0.05 for the direction end - start of the last leader call; the
\* direction of a leader of length 0 is not normalised and has dy = 0
NearlyLevel ==
    LET dx == lastCall.kw.end_point[1] - lastCall.kw.start_point[1]
        dy == lastCall.kw.end_point[2] - lastCall.kw.start_point[2]
    IN  400 * dy * dy < dx * dx + dy * dy \/ (dx = 0 /\ dy = 0)

\* the signed length of the second segment of the last leader call
SecondRun == Emitted[2].end[1] - Emitted[2].start[1]

\* C11: a leader takes the horizontal branch exactly when the y-component of its
\* normalised direction is below 0.05 in absolute value. In both branches the
\* second segment starts at the anchor (the far end of the first segment) and is
\* level; it is 1 unit long in the horizontal branch, toward +x if start.x < end.x
\* and toward -x otherwise, and 10 units long in the other branch; the text has
\* the same y and lies 5 units beyond the segment's far end in the same direction.
C11_BranchAndLanding ==
    LeaderDrawn =>
        LET s == lastCall.kw.start_point
            e == lastCall.kw.end_point
            anchor == Emitted[1].end
            second == Emitted[2]
            label == Emitted[3]
        IN  /\ Len(Emitted) = 3
            /\ second.type = "line"
            /\ second.start = anchor
            /\ second.end[2] = anchor[2]
            /\ NearlyLevel => SecondRun = (IF s[1] < e[1] THEN U(1) ELSE -U(1))
            /\ ~NearlyLevel => Abs(SecondRun) = U(10)
            /\ label.type = "text"
            /\ label.position = <<second.end[1] + U(5) * Sign(SecondRun), anchor[2]>>

\* a leader from (0, 0) to (25, 1), not level but within the threshold, got the
\* 1-unit stub from its anchor (-5, -0.2) and its text at (1, -0.2)
C11_Witness ==
    /\ LeaderDrawn
    /\ lastCall.kw.start_point = <<0, 0>> /\ lastCall.kw.end_point = <<250, 10>>
    /\ SecondRun = U(1)
    /\ Emitted[3].position = <<-50 + U(1) + U(5), -2>>

\* C12: in the non-horizontal branch the 10-unit landing goes left or right by
\* the displacement start.x - end.x: toward its sign when it exceeds 10 units in
\* absolute value, and otherwise against the sign of the x-component of the
\* direction end - start (a direction without x-component has no sign to go
\* against; the landing is still 10 units to one side).
C12_LandingDirection ==
    (LeaderDrawn /\ ~NearlyLevel) =>
        LET s == lastCall.kw.start_point
            e == lastCall.kw.end_point
            displacement == s[1] - e[1]
            dx == e[1] - s[1]
        IN  /\ Abs(displacement) > U(10) => Sign(SecondRun) = Sign(displacement)
            /\ (Abs(displacement) <= U(10) /\ dx # 0) => Sign(SecondRun) = -Sign(dx)
            /\ Sign(SecondRun) \in {1, -1}

\* a steep leader from (10, 5) to (5, 15), displaced by 5 units, landed to the
\* right: from its anchor (11, 3) to (21, 3)
C12_Witness ==
    /\ LeaderDrawn
    /\ lastCall.kw.start_point = <<100, 50>> /\ lastCall.kw.end_point = <<50, 150>>
    /\ Emitted[2].start = <<110, 30>> /\ Emitted[2].end = <<210, 30>>

\* C13: for a leader with start # end the first primitive is a straight segment
\* from end to the anchor start - 0.2 * (end - start), the point of the line
\* through start and end that lies beyond start, away from end, at 20% of the
\* distance between them.
C13_LeaderToAnchor ==
    (LeaderDrawn /\ lastCall.kw.start_point # lastCall.kw.end_point) =>
        LET s == lastCall.kw.start_point
            e == lastCall.kw.end_point
            first == Emitted[1]
        IN  /\ first.type = "line"
            /\ first.start = e
            /\ 10 * (first.end[1] - s[1]) = -2 * (e[1] - s[1])
            /\ 10 * (first.end[2] - s[2]) = -2 * (e[2] - s[2])

\* a leader from (10, 5) to (25, 15) has been drawn: its first segment runs
\* from (25, 15) to (7, 3)
C13_Witness ==
    /\ LeaderDrawn
    /\ lastCall.kw.start_point = <<100, 50>> /\ lastCall.kw.end_point = <<250, 150>>
    /\ Emitted[1].start = <<250, 150>> /\ Emitted[1].end = <<70, 30>>

-----------------------------------------------------------------------------
(* Section lines: a view strategy draws cutting planes of length 0, along  *)
(* the axes and along 3-4-5 directions, with the default and with a given  *)
(* arrow size.                                                             *)

MaxSections == 1

SectionStarts == {<<0, 0>>, <<10, 10>>, <<-200, 55>>}

SectionOffsets ==
    {<<0, 0>>, <<50, 0>>, <<-50, 0>>, <<0, 50>>, <<0, -50>>, <<100, 0>>,
     <<30, 40>>, <<-30, 40>>, <<40, -30>>, <<-40, -30>>, <<60, 80>>}

SectionCalls ==
    LET plain == {[start_point |-> s, end_point |-> <<s[1] + d[1], s[2] + d[2]>>] :
                    s \in SectionStarts, d \in SectionOffsets}
    IN  plain \cup {kw @@ [arrow_size |-> U(5), section_label |-> "B"] : kw \in plain}

InitSection ==
    /\ \E snap \in WholeSnapshots \ {NoneVal} : ConfigLoaded(snap)
    /\ self = "ViewDrawer"
    /\ CanvasFresh
    /\ tplClass = "ShaftTemplate" /\ TemplateIdle
    /\ FactoryFresh
    /\ TableIdle

\* views.draw('section_line', start_point=, end_point=[, arrow_size=, section_label=])
DrawSection ==
    /\ draws < MaxSections
    /\ \E kw \in SectionCalls : DrawOn(self, "section_line", kw)
    /\ draws' = draws + 1
    /\ UNCHANGED <<cfgVars, self, tplVars, tblVars, facVars>>

NextSection == DrawSection

SpecSection == InitSection /\ [][NextSection]_vars

\* C14: a section line with start = end raises nothing, hands the canvas nothing
\* and returns an empty list; a section line with start # end never returns an
\* empty result.
C14_DegenerateSectionLine ==
    (lastCall.called /\ lastCall.op = "section_line") =>
        /\ lastCall.kw.start_point = lastCall.kw.end_point =>
                /\ lastCall.raised = ""
                /\ canvas = lastCall.before
                /\ lastCall.list
        /\ lastCall.kw.start_point # lastCall.kw.end_point =>
                /\ lastCall.raised = ""
                /\ Len(Emitted) > 0

\* a section line from (1, 1) to (1, 1) has returned
C14_Witness ==
    /\ lastCall.called /\ lastCall.op = "section_line"
    /\ lastCall.kw.start_point = <<10, 10>> /\ lastCall.kw.end_point = <<10, 10>>
    /\ lastCall.raised = ""
    /\ canvas = <<>>

-----------------------------------------------------------------------------
(* The parts table (tools/table_methods.py).  Coordinates are in tenths of *)
(* a drawing unit.  The layer names, the template's style name and the     *)
(* column names are written in CJK characters in the source: "3TEXT",      *)
(* "2THICK", "5FONT" and the English column names stand for them.  A row   *)
(* record is a list of seven strings.                                      *)

\* existing_seq_y = {1: 53.5, 2: 60.5, 3: 67.5}
existing_seq_y == <<535, 605, 675>>

\* base_x = 999.0
base_x == 9990

\* row_height = 7.0
row_height == 70

\* text_height = 3.5
text_height == 35

\* the column centres
col_x ==
    [seq |-> 10030, code |-> 10290, name |-> 10710, qty |-> 10950, material |-> 11180,
     unit_weight |-> 11420, total_weight |-> 11530, remarks |-> 12000]

\* the column widths, in the dict's insertion order
col_widths ==
    <<[name |-> "seq", width |-> 80], [name |-> "code", width |-> 440],
      [name |-> "name", width |-> 400], [name |-> "qty", width |-> 80],
      [name |-> "material", width |-> 380], [name |-> "unit_weight", width |-> 100],
      [name |-> "total_weight", width |-> 120], [name |-> "remarks", width |-> 195]>>

RECURSIVE SumWidths(_)
\* sum(col_widths.values()) over the first k columns
SumWidths(k) == IF k = 0 THEN 0 ELSE SumWidths(k - 1) + col_widths[k].width

table_left == base_x

table_right == base_x + SumWidths(Len(col_widths))

\* the template's style if the drawing has it, else 'Standard'
text_style(styles) == IF "5FONT" \in styles THEN "5FONT" ELSE "Standard"

\* msp.add_text(text, dxfattribs={height, layer, style, insert, halign, valign, align_point})
TableText(text, x, y_pos, height, style) ==
    [type |-> "TEXT", text |-> text, height |-> height, layer |-> "3TEXT", style |-> style,
     insert |-> <<x, y_pos>>, halign |-> 1, valign |-> 1, align_point |-> <<x, y_pos>>]

\* msp.add_line(start, end, dxfattribs={'layer': ...})
TableLine(start, end) == [type |-> "LINE", start |-> start, end |-> end, layer |-> "2THICK"]

\* f"{seq_num:02d}": the sign of a negative number counts for the width
Pad2(seq_num) ==
    IF 0 <= seq_num /\ seq_num < 10 THEN "0" \o ToString(seq_num) ELSE ToString(seq_num)

\* name[:10] when len(name) > 10
Truncate10(str) == IF Len(str) > 10 THEN SubSeq(str, 1, 10) ELSE str

\* the eight texts of one row
add_part_to_table(seq_num, part_info, cx, y_pos, height, style) ==
    LET code == IF part_info[1] # "" THEN part_info[1] ELSE "P" \o Pad2(seq_num)
    IN  <<TableText(ToString(seq_num), cx.seq, y_pos, height, style),
          TableText(code, cx.code, y_pos, height, style),
          TableText(Truncate10(part_info[2]), cx.name, y_pos, height, style),
          TableText(part_info[3], cx.qty, y_pos, height, style),
          TableText(Truncate10(part_info[4]), cx.material, y_pos, height, style),
          TableText(part_info[5], cx.unit_weight, y_pos, height, style),
          TableText(part_info[6], cx.total_weight, y_pos, height, style),
          TableText(part_info[7], cx.remarks, y_pos, height, style)>>

\* {k: v for k, v in parts.items() if 1 <= k <= 3}
template_parts(parts) == [k \in {i \in DOMAIN parts : 1 <= i /\ i <= 3} |-> parts[k]]

\* {k: v for k, v in parts.items() if k > 3}
additional_parts(parts) == [k \in {i \in DOMAIN parts : i > 3} |-> parts[k]]

\* start_y = existing_seq_y[3] + row_height
start_y == existing_seq_y[3] + row_height

\* a row position that moves with what the modelspace already holds
OverflowY_ByCanvas(i) == start_y + (i - 4 + Len(msp)) * row_height

\* y_pos = start_y + (i-4) * row_height
OverflowY(i) == start_y + (i - 4) * row_height

RECURSIVE TemplateRows(_, _, _)
\* for i in range(i, 4): if i in template_parts: add_part_to_table(...)
TemplateRows(i, rows, style) ==
    IF i >= 4 THEN <<>>
    ELSE (IF i \in DOMAIN rows
          THEN add_part_to_table(i, rows[i], col_x, existing_seq_y[i], text_height, style)
          ELSE <<>>)
         \o TemplateRows(i + 1, rows, style)

RECURSIVE AdditionalRows(_, _, _, _)
\* for i in range(i, stop): if i in additional_parts: add_part_to_table(...)
AdditionalRows(i, stop, rows, style) ==
    IF i >= stop THEN <<>>
    ELSE (IF i \in DOMAIN rows
          THEN add_part_to_table(i, rows[i], col_x, OverflowY(i), text_height, style)
          ELSE <<>>)
         \o AdditionalRows(i + 1, stop, rows, style)

\* begin_line_y = existing_seq_y[3] + row_height + 26.5
begin_line_y == existing_seq_y[3] + row_height + 265

\* a frame with a divider below every overflow row and the border after them
max_row_DividerEach(additional) == IF additional > 0 THEN 4 + additional ELSE 16

\* max_row = 3 + len(additional_parts) if additional_parts else 16
max_row(additional) == IF additional > 0 THEN 3 + additional ELSE 16

RECURSIVE HorizontalDividers(_, _, _)
\* for i in range(i, stop): a line at current_y + row_height / 2; current_y += row_height
HorizontalDividers(i, stop, current_y) ==
    IF i >= stop THEN <<>>
    ELSE <<TableLine(<<table_left, current_y + row_height \div 2>>,
                     <<table_right, current_y + row_height \div 2>>)>>
         \o HorizontalDividers(i + 1, stop, current_y + row_height)

RECURSIVE CurrentYAfter(_, _, _)
\* current_y when that loop has ended
CurrentYAfter(i, stop, current_y) ==
    IF i >= stop THEN current_y ELSE CurrentYAfter(i + 1, stop, current_y + row_height)

RECURSIVE VerticalDividers(_, _, _)
\* for col_name, width in col_widths.items(): a line at x_current + width, but
\* not for the last column; x_current += width
VerticalDividers(k, x_current, y_line) ==
    IF k > Len(col_widths) THEN <<>>
    ELSE LET x_line == x_current + col_widths[k].width
         IN  (IF col_widths[k].name # "remarks"
              THEN <<TableLine(<<x_line, begin_line_y>>, <<x_line, y_line>>)>>
              ELSE <<>>)
             \o VerticalDividers(k + 1, x_line, y_line)

\* a row count without the cap
TableRows_Uncapped(additional) == IF additional > 0 THEN 3 + additional ELSE 16

\* "rows": min(17, 3 + len(additional_parts)) if additional_parts else 16
TableRows(additional) == IF additional > 0 THEN Min(17, 3 + additional) ELSE 16

\* add_parts_table(msp, doc, parts): the entities it adds to the modelspace in
\* order, the dict it returns, and the mapping as the call leaves it
add_parts_table(styles, parts) ==
    LET additional == additional_parts(parts)
        count == Cardinality(DOMAIN additional)
        style == text_style(styles)
        rows == TemplateRows(1, template_parts(parts), style)
                \o AdditionalRows(4, 4 + count, additional, style)
        current_y == start_y + 275 + 25
        dividers == HorizontalDividers(4, max_row(count), current_y)
        y_line == CurrentYAfter(4, max_row(count), current_y) + row_height \div 2
        border == TableLine(<<table_left, y_line>>, <<table_right, y_line>>)
        frame == TableLine(<<table_left, begin_line_y>>, <<table_left, y_line>>)
    IN  [added |-> rows \o dividers \o <<border, frame>>
                   \o VerticalDividers(1, table_left, y_line),
         result |-> [base_x |-> base_x, base_y |-> existing_seq_y[1],
                     row_height |-> row_height, rows |-> TableRows(count)],
         parts |-> parts]

-----------------------------------------------------------------------------
(* The three functions of table_methods.py at work on a drawing: a new     *)
(* drawing with an empty modelspace and the standard style, a template     *)
(* drawing with a pre-printed entity and the template's style, or a        *)
(* template drawing with the placeholders of a title block.  Callers write *)
(* parts tables, fill in the title block and add single rows, in any       *)
(* order.  The mappings are dense, sparse, empty, and long enough to pass  *)
(* the cap of the row count.                                               *)

-----------------------------------------------------------------------------
(* update_title_block.  The keys of the title information and the          *)
(* placeholders of the template are written in CJK characters in the       *)
(* source; upper-case English names stand for them, and "[...]" for a      *)
(* placeholder in full-width parentheses.  'weight' and 'scale' are the    *)
(* source's own.                                                           *)

\* default_info
default_info ==
    [DRAWING_NAME |-> "Assembly Drawing", DRAWING_CODE |-> "001", ORG_NAME |-> "Organization",
     DESIGN |-> "Designer", REVIEW |-> "Reviewer", STD_NO |-> "Standard", WEIGHT |-> "Weight",
     SCALE |-> "1:1", MATERIAL |-> "Assembly", DATE |-> "Date", weight |-> "45kg",
     scale |-> "1:2"]

\* the loop that gives title_info every key of default_info it does not have
MergedTitleInfo(title_info) == title_info @@ default_info

\* the if/elif chain on one text entity: the entity as the function leaves it
UpdatedTitleEntity(entity, info, style) ==
    LET text == entity.text
        pos == entity.insert
        with(value) == [entity EXCEPT !.text = value, !.style = style]
    IN  IF \/ Contains(text, "DRAWING_NAME") \/ Contains(text, "(DRAWING_NAME)")
           \/ Contains(text, "[DRAWING_NAME]")
        THEN with(info["DRAWING_NAME"])
        ELSE IF \/ Contains(text, "DRAWING_CODE") \/ Contains(text, "(DRAWING_CODE)")
                \/ Contains(text, "[DRAWING_CODE]")
        THEN with(info["DRAWING_CODE"])
        ELSE IF \/ Contains(text, "ORG_NAME") \/ Contains(text, "(ORG_NAME)")
                \/ Contains(text, "[ORG_NAME]")
        THEN with(info["ORG_NAME"])
        ELSE IF Contains(text, "[SIGN]") \/ Contains(text, "(SIGN)")
        THEN IF pos[1] < 10300 THEN with(info["DESIGN"])
             ELSE IF pos[1] < 10600 THEN with(info["REVIEW"])
             ELSE entity
        ELSE IF Contains(text, "[YMD]") \/ Contains(text, "(YMD)") \/ Contains(text, "Y,M,D")
        THEN with(info["DATE"])
        ELSE IF \/ Contains(text, "MATERIAL_MARK") \/ Contains(text, "(MATERIAL_MARK)")
                \/ Contains(text, "[MATERIAL_MARK]")
        THEN with(info["MATERIAL"])
        ELSE IF Contains(text, "STD_NO") THEN with(info["STD_NO"])
        ELSE IF Contains(text, "weight") THEN with(info["weight"])
        ELSE IF Contains(text, "scale") THEN with(info["scale"])
        ELSE entity

\* update_title_block(msp, doc, title_info): the entities of the modelspace and
\* the caller's title_info as the call leaves them; it returns None
update_title_block(entities, styles, title_info) ==
    LET info == MergedTitleInfo(title_info)
        style == text_style(styles)
    IN  [msp |-> [i \in 1..Len(entities) |->
                    IF /\ entities[i].type \in {"TEXT", "MTEXT"}
                       /\ "insert" \in DOMAIN entities[i]
                       /\ "text" \in DOMAIN entities[i]
                    THEN UpdatedTitleEntity(entities[i], info, style)
                    ELSE entities[i]],
         title_info |-> info]

MaxTables == 2

RowFull == <<"GB-1", "Bolt", "4", "Q235", "0.1", "0.4", "std">>

RowBare == <<"", "HexagonSocketScrew", "2", "StainlessSteel304", "", "", "">>

IndexSets ==
    {{}, {1}, {1, 2, 3}, {1, 2, 3, 4}, {1, 2, 3, 4, 5}, {2, 4}, {5}, {5, 6}, {4, 6},
     {1, 5, 7}, {0, 1}, 1..17, 1..18}

PartsInputs ==
    {[k \in S |-> RowFull] : S \in IndexSets}
    \cup {[k \in S |-> RowBare] : S \in {{1}, {1, 2, 3}, {2, 4}}}
    \cup {[k \in 1..5 |-> IF k % 2 = 1 THEN RowFull ELSE RowBare]}

Preprinted == TableText("No.", col_x.seq, start_y, text_height, "Standard")

\* the document of a template drawing, which has the template's text style
TemplateDocument == [NewDocument EXCEPT !.styles = {"Standard", "5FONT"}]

\* a text of the template's title block
Placeholder(text, x, y) == TableText(text, x, y, text_height, "Standard")

\* a drawing with the placeholders of a title block, three signature fields, a
\* text that is no placeholder and a line
TitleTemplate ==
    <<Placeholder("(DRAWING_NAME)", 10800, 200), Placeholder("DRAWING_CODE", 11500, 200),
      Placeholder("[ORG_NAME]", 11500, 100), Placeholder("[SIGN]", 10200, 300),
      Placeholder("(SIGN)", 10450, 300), Placeholder("(SIGN)", 10700, 300),
      Placeholder("Y,M,D", 10450, 230), Placeholder("MATERIAL_MARK STD_NO", 10800, 100),
      Placeholder("STD_NO", 10800, 50), Placeholder("weight", 11000, 50),
      Placeholder("scale 1:1", 11200, 50), Placeholder("Bolt", 10290, 535),
      TableLine(<<9990, 0>>, <<11785, 0>>)>>

\* the title information callers give
TitleInputs ==
    {EmptyKw, [weight |-> "12kg"],
     [DRAWING_NAME |-> "Shaft", DESIGN |-> "Li", scale |-> "1:5"]}

\* the rows callers add on their own: sequence number, row, y, height, style
PartInputs ==
    {<<9, RowFull, 100, 35, "Standard">>, <<2, RowBare, 605, 50, "5FONT">>}

InitTable ==
    /\ ConfigLoaded(SnapA)
    /\ self = "BasicShapeDrawer"
    /\ CanvasFresh
    /\ tplClass = "ShaftTemplate" /\ TemplateIdle
    /\ FactoryFresh
    /\ \/ msp = <<>> /\ doc = NewDocument
       \/ msp = <<Preprinted>> /\ doc = TemplateDocument
       \/ msp = TitleTemplate /\ doc = TemplateDocument
    /\ tblLog = <<>>
    /\ tblCalls = <<>>

\* add_parts_table(msp, doc, parts)
AddPartsTable ==
    /\ Len(tblLog) + Len(tblCalls) < MaxTables
    /\ \E parts \in PartsInputs :
        LET r == add_parts_table(doc.styles, parts) IN
        /\ msp' = msp \o r.added
        /\ tblLog' = Append(tblLog, [parts |-> parts, after |-> r.parts,
                                     first |-> Len(msp) + 1,
                                     last |-> Len(msp) + Len(r.added),
                                     result |-> r.result])
    /\ UNCHANGED <<cfgVars, drawVars, tplVars, facVars, doc, tblCalls>>

\* update_title_block(msp, doc, title_info)
UpdateTitleBlock ==
    /\ Len(tblLog) + Len(tblCalls) < MaxTables
    /\ \E title_info \in TitleInputs :
        LET r == update_title_block(msp, doc.styles, title_info) IN
        /\ msp' = r.msp
        /\ tblCalls' = Append(tblCalls, [call |-> "update_title_block",
                                         title_info |-> title_info,
                                         after |-> r.title_info, before |-> msp])
    /\ UNCHANGED <<cfgVars, drawVars, tplVars, facVars, doc, tblLog>>

\* add_part_to_table(msp, doc, seq_num, part_info, col_x, y_pos, text_height, text_style)
AddPartToTable ==
    /\ Len(tblLog) + Len(tblCalls) < MaxTables
    /\ \E a \in PartInputs :
        /\ msp' = msp \o add_part_to_table(a[1], a[2], col_x, a[3], a[4], a[5])
        /\ tblCalls' = Append(tblCalls, [call |-> "add_part_to_table", seq_num |-> a[1],
                                         part_info |-> a[2], y_pos |-> a[3], before |-> msp])
    /\ UNCHANGED <<cfgVars, drawVars, tplVars, facVars, doc, tblLog>>

NextTable == AddPartsTable \/ UpdateTitleBlock \/ AddPartToTable

SpecTable == InitTable /\ [][NextTable]_vars

-----------------------------------------------------------------------------
(* What the specification says of a parts table, read off the entities a   *)
(* call added to the modelspace.                                           *)

TableCalled == Len(tblLog) > 0

LastTable == tblLog[Len(tblLog)]

\* the entities call c added
Added(c) == SubSeq(msp, c.first, c.last)

\* the x of the eight columns, in the order of the fields of a row
ColumnXs == <<10030, 10290, 10710, 10950, 11180, 11420, 11530, 12000>>

\* the positions in the modelspace where call c wrote the sequence number of row k
SeqTextsOf(c, k) ==
    {i \in c.first..c.last :
        /\ msp[i].type = "TEXT"
        /\ msp[i].insert[1] = ColumnXs[1]
        /\ msp[i].text = ToString(k)}

\* the number of texts call c wrote at height y
TextsAt(c, y) ==
    Cardinality({i \in c.first..c.last : msp[i].type = "TEXT" /\ msp[i].insert[2] = y})

\* call c wrote row k: its sequence number and seven more texts, one in each
\* column at the same y, and no other text at that y
RowDrawn(c, k) ==
    \E i \in SeqTextsOf(c, k) :
        /\ i + 7 <= c.last
        /\ \A j \in 1..8 :
                /\ msp[i + j - 1].type = "TEXT"
                /\ msp[i + j - 1].insert = <<ColumnXs[j], msp[i].insert[2]>>
        /\ TextsAt(c, msp[i].insert[2]) = 8

\* the indices above 3 of a mapping
OverflowIndices(parts) == {k \in DOMAIN parts : k > 3}

\* C15: for every entry of the mapping with index >= 1, whatever indices are
\* present, the call emits exactly 8 texts (sequence number, code, name,
\* quantity, material, unit weight, total weight, remarks) at that row's y: no
\* supplied row is left without its texts.
C15_EveryRowDrawn ==
    TableCalled =>
        \A k \in DOMAIN LastTable.parts : k >= 1 => RowDrawn(LastTable, k)

\* the y at which call c wrote row k
RowY(c, k) == msp[CHOOSE i \in SeqTextsOf(c, k) : TRUE].insert[2]

\* C16: rows 1, 2, 3 are at the three fixed y of the template, and the rows
\* with index >= 4 follow in ascending index order one row height apart, the
\* first of them one row height after row 3.
C16_OverflowRowsPacked ==
    TableCalled =>
        \A k \in DOMAIN LastTable.parts :
            SeqTextsOf(LastTable, k) # {} =>
                /\ k \in 1..3 => RowY(LastTable, k) = <<535, 605, 675>>[k]
                /\ k >= 4 =>
                    RowY(LastTable, k) =
                        675 + 70 * Cardinality({j \in OverflowIndices(LastTable.parts) : j <= k})

\* the lines call c added, in order
LinesOf(c) == SelectSeq(Added(c), LAMBDA e : e.type = "LINE")

\* the level lines and the upright lines among them
HorizontalLines(c) == SelectSeq(LinesOf(c), LAMBDA e : e.start[2] = e.end[2])

UprightLines(c) == SelectSeq(LinesOf(c), LAMBDA e : e.start[1] = e.end[1])

\* every level line spans the table from its left edge (999) to its right edge
\* (1178.5), the lines descend by one row height, the last of them is the bottom
\* border, and the left frame line and the seven column dividers all end on it
FrameClosedBy(c) ==
    LET level == HorizontalLines(c)
        upright == UprightLines(c)
        bottom == level[Len(level)].start[2]
    IN  /\ Len(level) >= 1
        /\ Len(level) + Len(upright) = Len(LinesOf(c))
        /\ \A i \in 1..Len(level) : level[i].start[1] = 9990 /\ level[i].end[1] = 11785
        /\ \A i \in 1..(Len(level) - 1) : level[i + 1].start[2] = level[i].start[2] + 70
        /\ LinesOf(c)[Len(level)] = level[Len(level)]
        /\ Len(upright) = 8
        /\ upright[1].start[1] = 9990
        /\ \A i \in 1..Len(upright) : upright[i].end[2] = bottom

\* C17 as stated: for n overflow rows the call draws n divider lines and one
\* bottom border, n + 1 level lines in all, each from the left to the right
\* edge; the border is the last of them and the left frame line and all column
\* dividers end at its y.
C17_DividerPerOverflowRow ==
    TableCalled =>
        /\ FrameClosedBy(LastTable)
        /\ Len(HorizontalLines(LastTable))
                = Cardinality(OverflowIndices(LastTable.parts)) + 1

\* C17: for n >= 1 overflow rows the call draws n - 1 divider lines and one
\* bottom border, n level lines in all, one below each overflow row; without
\* overflow rows it draws the 12 dividers and the border of the 16-row template.
\* Each runs from the left to the right edge; the border is the last of them and
\* the left frame line and the seven column dividers end at its y.
C17_FrameLines ==
    TableCalled =>
        LET n == Cardinality(OverflowIndices(LastTable.parts)) IN
        /\ FrameClosedBy(LastTable)
        /\ Len(HorizontalLines(LastTable)) = (IF n >= 1 THEN n ELSE 13)
        /\ HorizontalLines(LastTable)[1].start[2] = 1080

\* a table with rows 1..5 has been written: two level lines, at 108 and 115
C17_Witness ==
    /\ TableCalled
    /\ DOMAIN LastTable.parts = 1..5
    /\ Len(HorizontalLines(LastTable)) = 2
    /\ HorizontalLines(LastTable)[2].start = <<9990, 1150>>
    /\ UprightLines(LastTable)[8].end = <<11590, 1150>>

\* C18: the row count returned is 16 when the mapping has no index above 3, and
\* otherwise 3 plus the number of such indices, at most 17; the layout returned
\* also has the left x (999), the y of row 1 (53.5) and the row height (7).
C18_RowCount ==
    TableCalled =>
        LET n == Cardinality(OverflowIndices(LastTable.parts))
            layout == LastTable.result
        IN  /\ layout.rows = (IF n = 0 THEN 16 ELSE IF 3 + n > 17 THEN 17 ELSE 3 + n)
            /\ layout.base_x = 9990
            /\ layout.base_y = 535
            /\ layout.row_height = 70

\* a table with rows 1..18, fifteen of them overflow rows, returned 17 rows
C18_Witness ==
    /\ TableCalled
    /\ DOMAIN LastTable.parts = 1..18
    /\ LastTable.result.rows = 17

\* the rows call c wrote: sequence number and y
RowYs(c) ==
    {<<msp[i].text, msp[i].insert[2]>> :
        i \in {j \in c.first..c.last : msp[j].type = "TEXT" /\ msp[j].insert[1] = ColumnXs[1]}}

\* C19: two calls with the same mapping give the same row y and the same layout;
\* the rows' y depend on the indices only: not on the rows' contents, not on what
\* the modelspace holds, not on earlier calls; and a call leaves the mapping it
\* was given as it was.
C19_SameMappingSameLayout ==
    /\ \A i \in 1..Len(tblLog) : tblLog[i].after = tblLog[i].parts
    /\ \A i, j \in 1..Len(tblLog) :
            DOMAIN tblLog[i].parts = DOMAIN tblLog[j].parts =>
                /\ RowYs(tblLog[i]) = RowYs(tblLog[j])
                /\ tblLog[i].result = tblLog[j].result

\* the same mapping with rows 1..5 has been written twice into a modelspace
\* that was not empty
C19_Witness ==
    /\ Len(tblLog) = 2
    /\ tblLog[1].first = 2
    /\ tblLog[1].parts = tblLog[2].parts
    /\ DOMAIN tblLog[1].parts = 1..5
    /\ RowYs(tblLog[2]) = {<<"1", 535>>, <<"2", 605>>, <<"3", 675>>, <<"4", 745>>, <<"5", 815>>}

-----------------------------------------------------------------------------
(* Rectangles: a basic-shape strategy draws rectangles of several sizes at *)
(* several corners, on the default layer and on a named one; some of the   *)
(* calls have a width or a height that is not positive.                    *)

MaxRectangles == 1

RectangleCorners == {<<0, 0>>, <<10, 20>>, <<-50, -25>>}

RectangleWidths == {-10, 0, 5, 40, 300}

RectangleHeights == {0, 5, 30, 300}

RectangleCalls ==
    LET plain == {[lower_left |-> c, width |-> w, height |-> h] :
                    c \in RectangleCorners, w \in RectangleWidths, h \in RectangleHeights}
    IN  plain \cup {kw @@ [layer |-> "VISIBLE"] : kw \in plain}

InitRectangle ==
    /\ \E snap \in WholeSnapshots \ {NoneVal} : ConfigLoaded(snap)
    /\ self = "BasicShapeDrawer"
    /\ CanvasFresh
    /\ tplClass = "ShaftTemplate" /\ TemplateIdle
    /\ FactoryFresh
    /\ TableIdle

\* basic_shapes.draw('rectangle', lower_left=, width=, height=[, layer=])
DrawRectangle ==
    /\ draws < MaxRectangles
    /\ \E kw \in RectangleCalls : DrawOn(self, "rectangle", kw)
    /\ draws' = draws + 1
    /\ UNCHANGED <<cfgVars, self, tplVars, tblVars, facVars>>

NextRectangle == DrawRectangle

SpecRectangle == InitRectangle /\ [][NextRectangle]_vars

\* C20: a rectangle with width > 0 and height > 0 gives exactly 4 lines: bottom,
\* right, top, left, from the lower-left corner counter-clockwise. They form a
\* closed loop (each line ends where the next starts, the last where the first
\* starts) and all four are on the same mapped layer.
C20_RectangleClosedLoop ==
    (lastCall.called /\ lastCall.op = "rectangle"
        /\ lastCall.kw.width > 0 /\ lastCall.kw.height > 0) =>
        LET x == lastCall.kw.lower_left[1]
            y == lastCall.kw.lower_left[2]
            w == lastCall.kw.width
            h == lastCall.kw.height
            corners == <<<<x, y>>, <<x + w, y>>, <<x + w, y + h>>, <<x, y + h>>>>
        IN  /\ lastCall.raised = ""
            /\ Len(Emitted) = 4
            /\ \A i \in 1..4 :
                    /\ Emitted[i].type = "line"
                    /\ Emitted[i].start = corners[i]
                    /\ Emitted[i].end = Emitted[(i % 4) + 1].start
                    /\ Emitted[i].layer = PhysicalName(LoadedConfig, DictGet(lastCall.kw, "layer",
                                                                       "PARTS"))

\* a rectangle 4 wide and 3 high at (1, 2) has been drawn: its third line, the
\* top, runs from (5, 5) to (1, 5)
C20_Witness ==
    /\ lastCall.called /\ lastCall.op = "rectangle" /\ lastCall.raised = ""
    /\ lastCall.kw.lower_left = <<10, 20>> /\ lastCall.kw.width = 40
    /\ lastCall.kw.height = 30
    /\ Len(Emitted) = 4
    /\ Emitted[3].start = <<50, 50>> /\ Emitted[3].end = <<10, 50>>

-----------------------------------------------------------------------------
(* Dimensions: a dimension strategy draws linear dimensions, dimensions    *)
(* with tolerance and baseline dimensions.  The offset distance is         *)
(* positive, zero and negative; the tolerances are positive, zero and      *)
(* negative; the baseline has one to three points.                         *)

MaxDimensions == 1

DimensionPoints == {<<0, 0>>, <<100, 50>>, <<-30, 80>>}

LinearCalls ==
    LET plain == {[p1 |-> a, p2 |-> b, distance |-> d] :
                    a \in DimensionPoints, b \in DimensionPoints, d \in {-100, -5, 0, 150}}
    IN  plain \cup {kw @@ [text |-> <<"L">>] : kw \in plain}

ToleranceCalls ==
    {[p1 |-> <<0, 0>>, p2 |-> b, distance |-> d, nominal |-> n, upper_tol |-> u,
      lower_tol |-> l] :
        b \in {<<100, 50>>, <<-30, 80>>}, d \in {-100, 100}, n \in {0, 25},
        u \in {-2, 0, 5, 10}, l \in {-2, 0, 100}}

BaselineCalls ==
    LET plain == {[base_point |-> b, points |-> ps] :
                    b \in {<<0, 0>>, <<100, 50>>},
                    ps \in {<<<<200, 0>>>>, <<<<200, 0>>, <<400, 0>>>>,
                            <<<<400, 50>>, <<200, 50>>, <<600, 50>>>>}}
    IN  plain
        \cup {kw @@ [spacing |-> U(5)] : kw \in plain}
        \cup {kw @@ [direction |-> <<0, 1>>] : kw \in plain}
        \cup {kw @@ [spacing |-> 0, direction |-> <<-1, 1>>] : kw \in plain}

InitDimension ==
    /\ \E snap \in WholeSnapshots \ {NoneVal} : ConfigLoaded(snap)
    /\ self = "DimensionDrawer"
    /\ CanvasFresh
    /\ tplClass = "ShaftTemplate" /\ TemplateIdle
    /\ FactoryFresh
    /\ TableIdle

\* dimensions.draw('linear', p1=, p2=, distance=[, text=])
DrawLinear ==
    /\ draws < MaxDimensions
    /\ \E kw \in LinearCalls : DrawOn(self, "linear", kw)
    /\ draws' = draws + 1
    /\ UNCHANGED <<cfgVars, self, tplVars, tblVars, facVars>>

\* dimensions.draw('tolerance', p1=, p2=, distance=, nominal=, upper_tol=, lower_tol=)
DrawTolerance ==
    /\ draws < MaxDimensions
    /\ \E kw \in ToleranceCalls : DrawOn(self, "tolerance", kw)
    /\ draws' = draws + 1
    /\ UNCHANGED <<cfgVars, self, tplVars, tblVars, facVars>>

\* dimensions.draw('baseline', base_point=, points=[, spacing=, direction=])
DrawBaseline ==
    /\ draws < MaxDimensions
    /\ \E kw \in BaselineCalls : DrawOn(self, "baseline", kw)
    /\ draws' = draws + 1
    /\ UNCHANGED <<cfgVars, self, tplVars, tblVars, facVars>>

NextDimension == DrawLinear \/ DrawTolerance \/ DrawBaseline

SpecDimension == InitDimension /\ [][NextDimension]_vars

\* C21: for a linear dimension and for a dimension with tolerance the base point
\* handed to the canvas is (min(x1, x2), min(y1, y2) - distance), whatever the
\* sign of distance: the call is not refused and the sign is not corrected, so
\* with a negative distance the base point lies above the lower endpoint.
C21_BaseFromSignedDistance ==
    (lastCall.called /\ lastCall.op \in {"linear", "tolerance"}) =>
        LET p1 == lastCall.kw.p1
            p2 == lastCall.kw.p2
            lowx == IF p1[1] <= p2[1] THEN p1[1] ELSE p2[1]
            lowy == IF p1[2] <= p2[2] THEN p1[2] ELSE p2[2]
        IN  /\ lastCall.raised = ""
            /\ Len(Emitted) = 1
            /\ Emitted[1].type = "linear_dim"
            /\ Emitted[1].base = <<lowx, lowy - lastCall.kw.distance>>
            /\ lastCall.kw.distance < 0 => Emitted[1].base[2] > lowy

\* a linear dimension from (10, 5) to (0, 0) at distance -10 has its base point
\* at (0, 10), above both endpoints
C21_Witness ==
    /\ lastCall.called /\ lastCall.op = "linear" /\ lastCall.raised = ""
    /\ lastCall.kw.p1 = <<100, 50>> /\ lastCall.kw.p2 = <<0, 0>>
    /\ lastCall.kw.distance = -100
    /\ Emitted[1].base = <<0, 100>>

\* C22: a baseline call with N >= 1 points emits exactly N linear dimensions in
\* the order of the points; each has base_point as its base and as its first
\* extension origin and measures to its point, all carry the same angle, the
\* atan2 of the direction vector, and the i-th (from 0) carries the
\* extension-origin offset spacing * i; the result is the list of the N handles.
C22_BaselineDimensions ==
    (lastCall.called /\ lastCall.op = "baseline") =>
        LET points == lastCall.kw.points
            spacing == DictGet(lastCall.kw, "spacing", U(10))
            direction == DictGet(lastCall.kw, "direction", <<1, 0>>)
        IN  /\ lastCall.raised = ""
            /\ lastCall.list
            /\ Len(Emitted) = Len(points)
            /\ \A k \in 1..Len(points) :
                    /\ Emitted[k].type = "linear_dim"
                    /\ Emitted[k].base = lastCall.kw.base_point
                    /\ Emitted[k].p1 = lastCall.kw.base_point
                    /\ Emitted[k].p2 = points[k]
                    /\ Emitted[k].angle = <<Atan2(direction[2], direction[1])>>
                    /\ Emitted[k].override.dimexo = spacing * (k - 1)

\* a baseline from (10, 5) to three points with spacing 5 along (1, 0): the
\* third dimension measures to (60, 5) with offset 10, the first with offset
\* 0, at angle 0
C22_Witness ==
    /\ lastCall.called /\ lastCall.op = "baseline" /\ lastCall.raised = ""
    /\ lastCall.kw.base_point = <<100, 50>>
    /\ Len(Emitted) = 3
    /\ Emitted[3].p2 = <<600, 50>>
    /\ Emitted[3].override.dimexo = 100
    /\ Emitted[1].override.dimexo = 0
    /\ Emitted[2].angle = <<<<0, 1>>>>

\* a tolerance as the text shows it: '+' before a value >= 0, the value's own
\* '-' before a negative one
SignedTolerance(tol) == IF tol >= 0 THEN "+" \o FloatStr(tol) ELSE FloatStr(tol)

\* C23: the text of a dimension with tolerance is the nominal size, the upper
\* tolerance, '/', the lower tolerance, each tolerance with '+' exactly when it
\* is >= 0 and with its own '-' when negative; the canvas gets this text in
\* place of the measured one (25, 0.05, -0.02 gives "25+0.05/-0.02").
C23_ToleranceText ==
    (lastCall.called /\ lastCall.op = "tolerance") =>
        /\ lastCall.raised = ""
        /\ Len(Emitted) = 1
        /\ Emitted[1].text = <<ToString(lastCall.kw.nominal)
                                 \o SignedTolerance(lastCall.kw.upper_tol) \o "/"
                                 \o SignedTolerance(lastCall.kw.lower_tol)>>
        /\ (lastCall.kw.nominal = 25 /\ lastCall.kw.upper_tol = 5
                /\ lastCall.kw.lower_tol = -2) => Emitted[1].text = <<"25+0.05/-0.02">>
        /\ (lastCall.kw.nominal = 25 /\ lastCall.kw.upper_tol = 0
                /\ lastCall.kw.lower_tol = 0) => Emitted[1].text = <<"25+0.0/+0.0">>

\* the dimension 25 +0.05 / -0.02 has been drawn
C23_Witness ==
    /\ lastCall.called /\ lastCall.op = "tolerance" /\ lastCall.raised = ""
    /\ lastCall.kw.nominal = 25 /\ lastCall.kw.upper_tol = 5 /\ lastCall.kw.lower_tol = -2
    /\ Emitted[1].text = <<"25+0.05/-0.02">>

-----------------------------------------------------------------------------
(* Round dimensions: a basic-shape strategy and a dimension strategy share *)
(* one canvas; circles are drawn and radius and diameter dimensions are    *)
(* added, with the angle left out or given in degrees.                     *)

MaxRounds == 2

RoundCenters == {<<0, 0>>, <<100, 50>>}

RoundAngles == {-45, 0, 30, 45, 90, 270}

CircleCalls == {[center |-> c, radius |-> U(10)] : c \in RoundCenters}

RoundCalls ==
    LET plain == {[center |-> c, radius |-> U(10)] : c \in RoundCenters}
    IN  plain \cup {kw @@ [angle |-> a] : kw \in plain, a \in RoundAngles}

InitRound ==
    /\ \E snap \in WholeSnapshots \ {NoneVal} : ConfigLoaded(snap)
    /\ self = "BasicShapeDrawer"
    /\ CanvasFresh
    /\ tplClass = "ShaftTemplate" /\ TemplateIdle
    /\ FactoryFresh
    /\ TableIdle

\* basic_shapes.draw('circle', center=, radius=)
DrawCircle ==
    /\ draws < MaxRounds
    /\ \E kw \in CircleCalls : DrawOn("BasicShapeDrawer", "circle", kw)
    /\ self' = "BasicShapeDrawer"
    /\ draws' = draws + 1
    /\ UNCHANGED <<cfgVars, tplVars, tblVars, facVars>>

\* dimensions.draw('radius' | 'diameter', center=, radius=[, angle=])
DrawRound ==
    /\ draws < MaxRounds
    /\ \E op \in {"radius", "diameter"}, kw \in RoundCalls : DrawOn("DimensionDrawer", op, kw)
    /\ self' = "DimensionDrawer"
    /\ draws' = draws + 1
    /\ UNCHANGED <<cfgVars, tplVars, tblVars, facVars>>

NextRound == DrawCircle \/ DrawRound

SpecRound == InitRound /\ [][NextRound]_vars

\* the last call was a radius or diameter dimension
RoundDrawn == lastCall.called /\ lastCall.op \in {"radius", "diameter"}

\* the angle n*pi/d is the given number of degrees times pi/180
IsDegrees(angle, degrees) == angle[2] > 0 /\ angle[1] * 180 = degrees * angle[2]

\* C24: a 'circle' draw followed by a 'diameter' draw makes exactly two canvas
\* calls, the circle and then the diameter dimension; every 'radius' and
\* 'diameter' call passes to the canvas the given angle times pi/180 (45 degrees
\* as pi/4), never the number of degrees itself.
C24_CircleThenDiameter ==
    /\ [](RoundDrawn =>
            LET degrees == DictGet(lastCall.kw, "angle", 45)
            IN  /\ lastCall.raised = ""
                /\ Len(Emitted) = 1
                /\ Emitted[1].type = (IF lastCall.op = "radius" THEN "radius_dim"
                                                                ELSE "diameter_dim")
                /\ IsDegrees(Emitted[1].angle, degrees)
                /\ degrees = 45 => Emitted[1].angle = <<1, 4>>
                /\ degrees # 0 => Emitted[1].angle # <<degrees, 1>>)
    /\ [][(/\ lastCall.called /\ lastCall.op = "circle" /\ lastCall.before = <<>>
           /\ lastCall'.op = "diameter" /\ draws' = draws + 1)
            => /\ Len(canvas') = 2
               /\ canvas'[1].type = "circle"
               /\ canvas'[2].type = "diameter_dim"
               /\ canvas'[1].center = lastCall.kw.center
               /\ canvas'[2].center = lastCall'.kw.center]_vars

\* circle(center=(0,0), radius=10), then a diameter dimension at the same
\* center and radius with angle=45: two canvas calls, the second with pi/4
C24_Witness ==
    /\ lastCall.called /\ lastCall.op = "diameter" /\ lastCall.raised = ""
    /\ lastCall.kw = [center |-> <<0, 0>>, radius |-> 100, angle |-> 45]
    /\ Len(canvas) = 2
    /\ canvas[1] = Circle(<<0, 0>>, 100, PhysicalName(LoadedConfig, "PARTS"))
    /\ canvas[2].type = "diameter_dim"
    /\ canvas[2].angle = <<1, 4>>

-----------------------------------------------------------------------------
(* Line variants: the four named line variants are called without and with *)
(* a layer keyword.                                                        *)

MaxVariants == 1

VariantOps == {"centerline", "hiddenline", "phantomline", "borderline"}

VariantCalls ==
    LET plain == {[start |-> <<0, 0>>, end |-> e] : e \in {<<100, 0>>, <<0, 50>>, <<-30, 80>>}}
    IN  plain \cup {kw @@ [layer |-> l] : kw \in plain, l \in {"PARTS", "CENTERLINE", "HIDDEN"}}

InitVariant ==
    /\ \E snap \in WholeSnapshots \ {NoneVal} : ConfigLoaded(snap)
    /\ self = "BasicShapeDrawer"
    /\ CanvasFresh
    /\ tplClass = "ShaftTemplate" /\ TemplateIdle
    /\ FactoryFresh
    /\ TableIdle

\* basic_shapes.draw('centerline' | 'hiddenline' | 'phantomline' | 'borderline',
\*                   start=, end=[, layer=])
DrawVariant ==
    /\ draws < MaxVariants
    /\ \E op \in VariantOps, kw \in VariantCalls : DrawOn(self, op, kw)
    /\ draws' = draws + 1
    /\ UNCHANGED <<cfgVars, self, tplVars, tblVars, facVars>>

NextVariant == DrawVariant

SpecVariant == InitVariant /\ [][NextVariant]_vars

\* the logical layer and the line style that belong to a variant
VariantLayer(op) ==
    CASE op = "centerline"  -> "CENTERLINE"
      [] op = "hiddenline"  -> "HIDDEN"
      [] op = "phantomline" -> "PHANTOM"
      [] op = "borderline"  -> "BORDER"

VariantStyle(op) ==
    CASE op = "centerline"  -> "CENTER"
      [] op = "hiddenline"  -> "HIDDEN"
      [] op = "phantomline" -> "PHANTOM"
      [] op = "borderline"  -> "BORDER"

\* C25: each named line variant draws one line on its own logical layer,
\* resolved through the layer mapping, with its own line style, and a layer
\* given by the caller does not change that pair: the line is still drawn.
C25_VariantOverridesLayer ==
    (lastCall.called /\ lastCall.op \in VariantOps) =>
        /\ lastCall.raised = ""
        /\ Len(Emitted) = 1
        /\ Emitted[1] = Line(lastCall.kw.start, lastCall.kw.end,
                             PhysicalName(LoadedConfig, VariantLayer(lastCall.op)),
                             VariantStyle(lastCall.op))


\* C26: the row count returned equals the max_row of the frame, the row number
\* up to which the level lines are drawn (max_row - 4 dividers and the border,
\* so max_row is 3 more than the number of level lines), for every number of
\* overflow rows, more than 14 included.
C26_RowsMatchFrame ==
    TableCalled =>
        LET n == Cardinality(OverflowIndices(LastTable.parts)) IN
        /\ LastTable.result.rows = max_row(n)
        /\ LastTable.result.rows = 3 + Len(HorizontalLines(LastTable))


\* C27: in the non-horizontal branch the landing goes to the right (+1) exactly
\* when end.x <= start.x and to the left (-1) exactly when end.x > start.x, on
\* either side of the 10-unit displacement threshold; the landing is level and
\* the text lies beyond its far end, so both run away from the end point's side.
C27_LandingAwayFromEnd ==
    (LeaderDrawn /\ ~NearlyLevel) =>
        LET s == lastCall.kw.start_point
            e == lastCall.kw.end_point
            landing == Emitted[2]
            label == Emitted[3]
            direction == IF e[1] <= s[1] THEN 1 ELSE -1
        IN  /\ landing.start[2] = landing.end[2]
            /\ SecondRun = direction * U(10)
            /\ label.position[2] = landing.end[2]
            /\ label.position[1] - landing.end[1] = direction * U(5)
            /\ (SecondRun > 0) = (e[1] <= s[1])
            /\ (SecondRun < 0) = (e[1] > s[1])

\* a steep leader from (0, 0) to (5, 10), end to the right of start by less than
\* the threshold, landed to the left: from its anchor (-1, -2) to (-11, -2)
C27_Witness ==
    /\ LeaderDrawn /\ ~NearlyLevel
    /\ lastCall.kw.start_point = <<0, 0>> /\ lastCall.kw.end_point = <<50, 100>>
    /\ Emitted[2].start = <<-10, -20>> /\ Emitted[2].end = <<-110, -20>>
    /\ Emitted[3].position = <<-160, -20>>


\* C28: the instance create_strategy returns is an instance of the class that is
\* registered under the name when it returns: a registration of another class
\* under the name holds for every later create_strategy call, also for a canvas
\* and config used with the name before.
C28_InstanceOfRegisteredClass ==
    (facCall.call = "create_strategy" /\ facCall.raised = "") =>
        facCall.result.class = ClassOf(_strategies, facCall.name)


\* the answers of all the getters on a snapshot
AllAnswers(cfg) ==
    [q \in {<<getter, key>> : getter \in Getters, key \in {"CENTER", "HIDDEN", "PARTS",
                                                           "TOLERANCE", "title", ""}} |->
        ConfigQuery(cfg, q[1], q[2])]

\* C29: a reload_config of a file that is missing or malformed raises to the
\* caller (FileNotFoundError, ValueError) and leaves the installed snapshot as it
\* was: every query answers after the failed reload what it answered before it,
\* and no snapshot is ever installed that is not the content of a readable file.
C29_FailedReloadKeepsSnapshot ==
    /\ []((cfgCall.call = "reload_config" /\ cfgCall.arg \in FileArgs) =>
            /\ FileState(ResolveFile(cfgCall.arg)).kind = "absent"
                    => cfgCall.raised = "FileNotFoundError"
            /\ FileState(ResolveFile(cfgCall.arg)).kind = "malformed"
                    => cfgCall.raised = "ValueError")
    /\ [][(cfgCall'.call = "reload_config" /\ cfgCall'.raised # "")
            => /\ _config' = _config
               /\ \A obj \in constructed :
                    AllAnswers(ConfigOf(_config', obj)) = AllAnswers(ConfigOf(_config, obj))]_vars
    /\ [](\A obj \in DOMAIN _config : _config[obj] \in WholeSnapshots)

\* while the object holds the snapshot of b.json and no call is in progress, a
\* reload of the malformed file has raised ValueError
C29_Witness ==
    /\ cfgCall.call = "reload_config" /\ cfgCall.arg = "bad.json" /\ cfgCall.obj = 1
    /\ cfgCall.raised = "ValueError"
    /\ _config = <<SnapB>>
    /\ \A t \in Threads : pc[t] = "idle"


\* the calls since the last clear that gave the triple of call c
IssuedFor(c) ==
    {a \in issued : a.name = c.name /\ a.canvas = c.canvas /\ a.config = c.config}

\* C30: clear_cache removes every cached instance and no registration:
\* list_strategies gives the same names before and after it. The next
\* create_strategy after the clear, also for a triple used before it, builds a
\* new instance, distinct from every instance returned before the clear, and
\* later calls with the triple return that instance.
C30_ClearCache ==
    /\ [][facCall'.call = "clear_cache"
            => /\ DOMAIN _instances' = {}
               /\ _strategies' = _strategies
               /\ list_strategies(_strategies') = list_strategies(_strategies)]_vars
    /\ [](\A a \in issued : a.result.serial \notin retired)
    /\ [][(facCall'.call = "create_strategy" /\ facCall'.raised = "" /\ creates' = creates + 1)
            => IF IssuedFor(facCall') = {}
               THEN /\ facCall'.result.serial \notin retired
                    /\ \A a \in issued : a.result.serial # facCall'.result.serial
               ELSE \A a \in IssuedFor(facCall') : a.result = facCall'.result]_vars

\* the first instance was cached when the cache was cleared; the second call
\* built the instance with serial 2 and the third call, with the same triple,
\* got it again
C30_Witness ==
    /\ creates = 3 /\ retired = {1}
    /\ facCall.call = "create_strategy" /\ facCall.raised = ""
    /\ facCall.result.serial = 2
    /\ issued = IssuedFor(facCall)
    /\ Cardinality(issued) = 1
    /\ DOMAIN _instances = {cache_key(facCall.name, facCall.canvas, facCall.config)}

=============================================================================
